---- MODULE Spec2Model ----
(***************************************************************************)
(* Model of the illusion-synthesis engine of luernie/AuditoryIllusions:    *)
(* the event-based Risset layer generators (cyclic, exponential, stronger  *)
(* exponential), their generate_risset drivers, and the normalization      *)
(* steps of the event, Shepard and tempo-ramp generators.                  *)
(*                                                                         *)
(* Numbers.  The Python code computes in IEEE doubles; the model computes  *)
(* in fixed point.  Phases, gains, frequencies (Hz) and seconds are        *)
(* integers counting 1/One; sample amplitudes are integers counting        *)
(* 1/AmpOne, so that the normalizers' epsilon 1e-9 is exactly one unit.    *)
(* 2**x, sin and exp are evaluated by range reduction and a polynomial,    *)
(* as libm does, to about 4 decimal digits.                                *)
(***************************************************************************)
EXTENDS Integers, Sequences, FiniteSets, TLC

\* ----------------------------------------------------------------- units
One == 100 * 100
AmpOne == 1000 * 1000 * 1000
AmpPerOne == AmpOne \div One

\* ------------------------------------------------------ integer helpers
Abs(x) == IF x < 0 THEN -x ELSE x

Min(a, b) == IF a < b THEN a ELSE b

Max(a, b) == IF a > b THEN a ELSE b

\* the sign of a*b, for a product taken on magnitudes
SignOf(a, b) == IF (a < 0) = (b < 0) THEN 1 ELSE -1

\* Python's int(a / b) for b > 0: truncation toward zero
TruncDiv(a, b) == IF a >= 0 THEN a \div b ELSE -((-a) \div b)

\* a * b / c rounded toward zero, for c > 0, without forming a * b
MulDiv(a, b, c) ==
    LET m == Abs(a)
        n == Abs(b)
    IN  SignOf(a, b) * ((m \div c) * n + ((m % c) * n) \div c)

\* ------------------------------------------------- elementary functions
\* a / b rounded to nearest, for a >= 0 and b > 0
RDiv(a, b) == (2 * a + b) \div (2 * b)

\* 2**(f / One) * One for 0 <= f < One: exp(f ln 2) by its Taylor polynomial
Exp2Frac(f) ==
    LET h6 == 2
        h5 == 13 + RDiv(f * h6, One)
        h4 == 96 + RDiv(f * h5, One)
        h3 == 555 + RDiv(f * h4, One)
        h2 == 2402 + RDiv(f * h3, One)
        h1 == 6931 + RDiv(f * h2, One)
    IN  One + RDiv(f * h1, One)

RECURSIVE Pow2(_)
Pow2(n) == IF n <= 0 THEN 1 ELSE 2 * Pow2(n - 1)

\* 2**(x / One) * One for any integer x (x \div One floors, as x = n + f)
Exp2(x) ==
    LET n == x \div One
        f == x % One
    IN  IF n >= 0 THEN Pow2(n) * Exp2Frac(f) ELSE RDiv(Exp2Frac(f), Pow2(-n))

\* sin(y / One) * One for 0 <= y <= pi/4 (the sine kernel)
SinKernel(y) ==
    LET y2 == RDiv(y * y, One)
        a3 == One - RDiv(y2, 42)
        a2 == One - RDiv(RDiv(y2 * a3, One), 20)
        a1 == One - RDiv(RDiv(y2 * a2, One), 6)
    IN  RDiv(y * a1, One)

\* cos(y / One) * One for 0 <= y <= pi/4 (the cosine kernel)
CosKernel(y) ==
    LET y2 == RDiv(y * y, One)
        a3 == One - RDiv(y2, 30)
        a2 == One - RDiv(RDiv(y2 * a3, One), 12)
    IN  One - RDiv(RDiv(y2 * a2, One), 2)

\* sin(pi * x / One) * One for 0 <= x <= One: reduce the argument to
\* [0, 1/4] and use the sine or the cosine kernel
SinPi(x) ==
    LET r == IF 2 * x > One THEN One - x ELSE x
    IN  IF 4 * r <= One
        THEN SinKernel(RDiv(31416 * r, One))
        ELSE CosKernel(RDiv(31416 * (One \div 2 - r), One))

\* sin(2 pi * u / One) * One for a turn count u >= 0 (in 1/One turns)
SinTurn(u) ==
    LET w == u % One
    IN  IF 2 * w <= One THEN SinPi(2 * w) ELSE -SinPi(2 * w - One)

\* exp(-y / One) * One for y >= 0, as 2**(-y log2 e)
ExpNeg(y) == Exp2(-RDiv(14427 * y, One))

\* --------------------------------------------------- numpy array steps
Zeros(n) == [k \in 1..n |-> 0]

\* a Python slice bound i on an array of length n: negative bounds count
\* from the end, and every bound is clipped to [0, n]
SliceBound(i, n) == IF i < 0 THEN Max(0, i + n) ELSE Min(i, n)

\* len(a[lo:hi]) for an array of length n
SliceLen(lo, hi, n) == Max(0, SliceBound(hi, n) - SliceBound(lo, n))

\* a[lo:hi] += b: numpy adds b into the slice when b has the slice's length, or
\* broadcasts b when it has one element; any other shape raises ValueError
CanAddInto(a, lo, hi, b) ==
    \/ Len(b) = SliceLen(lo, hi, Len(a))
    \/ Len(b) = 1

AddInto(a, lo, hi, b) ==
    LET s == SliceBound(lo, Len(a))
        n == SliceLen(lo, hi, Len(a))
    IN  [k \in 1..Len(a) |->
            IF k > s /\ k <= s + n
            THEN a[k] + (IF Len(b) = 1 THEN b[1] ELSE b[k - s])
            ELSE a[k]]

\* b[:m]
Prefix(b, m) == SubSeq(b, 1, SliceBound(m, Len(b)))

\* b * g for a gain g counted in 1/One
Scale(b, g) == [k \in 1..Len(b) |-> MulDiv(b[k], g, One)]

\* mix = layer in place of mix += layer: the sum so far is dropped
KeepLatest(a, b) == b

\* a + b, sample by sample (equal lengths)
AddArrays(a, b) == [k \in 1..Len(a) |-> a[k] + b[k]]

\* np.max(np.abs(a)) of a non-empty array (0 here for an empty one, where
\* numpy raises)
Peak(a) ==
    LET mags == {Abs(a[k]) : k \in 1..Len(a)}
    IN  IF mags = {} THEN 0 ELSE CHOOSE m \in mags : \A n \in mags : n <= m

\* -------------------------------------------------- the percussive hit
\* the three event generators, by the law of their event clock
Variants == {"cyclic", "exp", "strong"}

HitMsCyclic == 35
HitMsExp == 60
HitMsStrong == 40
DecayCyclic == 45
DecayExp == 30
HIT_DECAY == 45
TransientLen == 5

HitMs(v) == IF v = "cyclic" THEN HitMsCyclic
            ELSE IF v = "exp" THEN HitMsExp ELSE HitMsStrong

HitDecay(v) == IF v = "cyclic" THEN DecayCyclic
               ELSE IF v = "exp" THEN DecayExp ELSE HIT_DECAY

\* the hit's tone, set per layer by generate_layer
HitFreq(v, layer_index) ==
    IF v = "cyclic" THEN 120 + layer_index * 30
    ELSE IF v = "exp" THEN 80 + layer_index * 30
    ELSE 120 + layer_index * 40

\* signal[:5] += 0.5, the timing transient (not in the exponential version)
Transient(v, k) == IF v # "exp" /\ k <= TransientLen THEN One \div 2 ELSE 0

\* length = int(sample_rate * duration_ms / 1000)
HitLen(v, sample_rate) == TruncDiv(sample_rate * HitMs(v), 1000)

\* make_hit: sample k (1-based) is taken at time (k-1) * duration / length,
\* sin(2 pi freq t) (+ transient) times exp(-t decay), in amplitude units
make_hit(v, sample_rate, freq) ==
    LET length == HitLen(v, sample_rate)
        ticks(k) == (k - 1) * HitMs(v) * (One \div 1000)
        turns(k) == RDiv(freq * ticks(k), length)
        decay(k) == RDiv(HitDecay(v) * ticks(k), length)
    IN  [k \in 1..length |->
            MulDiv(SinTurn(turns(k)) + Transient(v, k), ExpNeg(decay(k)), One)
                * AmpPerOne]

\* ------------------------------------------------------- normalization
\* 1e-9, the guard added to the peak, in amplitude units
Eps == 1

\* x * b = q * c + r with 0 <= r < c, for 0 <= x < c, by doubling: no
\* intermediate value exceeds c
RECURSIVE MulQR(_, _, _)
MulQR(x, b, c) ==
    IF b = 0 THEN [q |-> 0, r |-> 0]
    ELSE LET h  == MulQR(x, b \div 2, c)
             dc == IF h.r >= c - h.r THEN 1 ELSE 0
             dr == IF dc = 1 THEN h.r - (c - h.r) ELSE h.r + h.r
             ac == IF b % 2 = 1 /\ dr >= c - x THEN 1 ELSE 0
             ar == IF b % 2 = 0 THEN dr
                   ELSE IF ac = 1 THEN dr - (c - x) ELSE dr + x
         IN  [q |-> 2 * h.q + dc + ac, r |-> ar]

\* the quotient x / c of two amplitudes, c > 0, in amplitude units
\* (toward zero)
Quot(x, c) ==
    LET m == Abs(x)
        s == IF x < 0 THEN -1 ELSE 1
    IN  s * ((m \div c) * AmpOne + MulQR(m % c, AmpOne, c).q)

\* the outcomes of a normalization step: np.max of an empty array raises
\* ValueError; a division 0.0 / 0.0 leaves nan in every sample
EmptyMax == [status |-> "ValueError", buf |-> <<>>, nan |-> FALSE]

Normalized(b) == [status |-> "ok", buf |-> b, nan |-> FALSE]

AllNan(b) == [status |-> "ok", buf |-> b, nan |-> TRUE]

\* the event normalization with a guard of 1e-6 in place of 1e-9: what a
\* wider guard would do to the peak
EventNormalizeWideGuard(mix) ==
    LET c == Peak(mix) + 1000 * Eps
    IN  IF Len(mix) = 0 THEN EmptyMax
        ELSE Normalized([k \in 1..Len(mix) |-> Quot(mix[k], c)])

\* mix /= np.max(np.abs(mix) + 1e-9), the event generators' and
\* generate_ramp's normalization
EventNormalize(mix) ==
    LET c == Peak(mix) + Eps
    IN  IF Len(mix) = 0 THEN EmptyMax
        ELSE Normalized([k \in 1..Len(mix) |-> Quot(mix[k], c)])

\* 0.8, the Shepard generator's target peak, in tenths
ShepardPeakTenths == 8

\* output = output / np.max(np.abs(output)) * 0.8: with a peak of 0 every
\* sample is 0.0 / 0.0, which numpy evaluates to nan
ShepardNormalize(output) ==
    LET c == Peak(output)
    IN  IF Len(output) = 0 THEN EmptyMax
        ELSE IF c = 0 THEN AllNan(output)
        ELSE Normalized([k \in 1..Len(output) |->
                MulDiv(Quot(output[k], c), ShepardPeakTenths, 10)])

\* signal /= np.max(np.abs(signal)), the first tempo-ramp script: nan
\* throughout for a silent signal
TempoNormalize(signal) ==
    LET c == Peak(signal)
    IN  IF Len(signal) = 0 THEN EmptyMax
        ELSE IF c = 0 THEN AllNan(signal)
        ELSE Normalized([k \in 1..Len(signal) |-> Quot(signal[k], c)])

\* ------------------------------------------------------ the event laws
EXP_RANGE == 3

\* a / b in 1/One, for b # 0 (toward zero)
Ratio(a, b) == SignOf(a, b) * MulDiv(Abs(a), One, Abs(b))

\* 1 / x in 1/One, for x # 0 counted in 1/One
Reciprocal(x) == SignOf(x, 1) * RDiv(One * One, Abs(x))

Clip(x, lo, hi) == Max(lo, Min(x, hi))

\* base_freq = base_tempo / 60.0
BaseFreq(base_tempo) == SignOf(base_tempo, 1) * RDiv(Abs(base_tempo) * One, 60)

\* direction = 1 if accelerating else -1
Direction(accelerating) == IF accelerating THEN 1 ELSE -1

\* phase_offset = layer_index / num_layers
PhaseOffset(layer_index, num_layers) == RDiv(layer_index * One, num_layers)

\* freq_offset = 2 ** (layer_index / num_layers)
FreqOffset(layer_index, num_layers) == Exp2(PhaseOffset(layer_index, num_layers))

\* the digits a float below 1/2 carries beyond those of a float next to 1
Guard == 10 * 10

\* a / b for a >= 0 and b > 0 to the guard digits, to nearest
FineRatio(a, b) ==
    LET part == MulQR(a % b, One * Guard, b)
    IN  (a \div b) * (One * Guard) + part.q
            + (IF part.r >= b - part.r THEN 1 ELSE 0)

\* (direction * t / cycle_duration) + phase_offset to the guard digits
FinePhase(c, layer_index, t) ==
    SignOf(t, c.cycle_duration) * Direction(c.accelerating)
            * FineRatio(Abs(t), Abs(c.cycle_duration))
        + RDiv(layer_index * One * Guard, c.num_layers)

\* x % 1.0 of a float x < 0 is fmod(x, 1.0) + 1.0, rounded: for a negative
\* x of less than half the last digit of 1.0 the sum is 1.0 itself.  Such
\* an x is the sum of two terms that both carry the guard digits.
RoundsToOne(c, layer_index, t) ==
    LET x == FinePhase(c, layer_index, t)
    IN  /\ 2 * FineRatio(Abs(t), Abs(c.cycle_duration)) < One * Guard
        /\ 2 * layer_index < c.num_layers
        /\ x < 0
        /\ 2 * (-x) <= Guard

\* phase = ((direction * t / cycle_duration) + phase_offset) % 1.0
CyclicPhase(c, layer_index, t) ==
    IF RoundsToOne(c, layer_index, t) THEN One
    ELSE (Direction(c.accelerating) * Ratio(t, c.cycle_duration)
            + PhaseOffset(layer_index, c.num_layers)) % One

\* progress = t / duration
Progress(c, t) == Ratio(t, c.duration)

\* the position the envelope and the rate are computed from at time t
Position(c, layer_index, t) ==
    IF c.variant = "cyclic" THEN CyclicPhase(c, layer_index, t)
    ELSE Progress(c, t)

\* the exponent without the direction: the rate rises in both directions
RateExponentUndirected(c, x) ==
    IF c.variant = "strong" THEN x * EXP_RANGE ELSE x

\* the exponent of 2 in the rate at position x
RateExponent(c, x) ==
    IF c.variant = "cyclic" THEN x
    ELSE IF c.variant = "exp" THEN Direction(c.accelerating) * x
    ELSE Direction(c.accelerating) * x * EXP_RANGE

\* freq, the instantaneous event rate at position x:
\*   cyclic  base_freq * (2 ** phase)
\*   exp     base_freq * freq_offset * (2 ** +-progress)
\*   strong  base_freq * freq_offset * (2 ** (+-progress * EXP_RANGE))
EventFreq(c, layer_index, x) ==
    LET start == IF c.variant = "cyclic" THEN BaseFreq(c.base_tempo)
                 ELSE MulDiv(BaseFreq(c.base_tempo),
                             FreqOffset(layer_index, c.num_layers), One)
    IN  MulDiv(start, Exp2(RateExponent(c, x)), One)

\* interval = 1 // freq, a floor division: 0 for every rate above 1 Hz, so
\* the cursor stalls
IntervalFloorDiv(freq) == (One \div freq) * One

\* interval = 1.0 / freq
Interval(freq) == Reciprocal(freq)

\* loudness = 0.6 + 0.4 * progress, or 0.6 + 0.4 * (1 - progress)
Loudness(c, x) ==
    LET p == IF c.accelerating THEN x ELSE One - x
    IN  6 * (One \div 10) + MulDiv(p, 4, 10)

\* the sine over a full turn, np.sin(2 * np.pi * x), in place of the half
\* turn: negative in the second half of the sweep
FadeFullTurn(c, x) ==
    IF c.variant = "strong"
    THEN MulDiv(Clip(MulDiv(x, 13, 10), 0, One),
                Clip(MulDiv(One - x, 13, 10), 0, One), One)
    ELSE SinTurn(x % One)

\* fade, the envelope at position x:
\*   cyclic, exp  np.sin(np.pi * x)
\*   strong       np.clip(x * 1.3, 0, 1) * np.clip((1 - x) * 1.3, 0, 1)
\* (the sine of a position outside [0, 1] is odd and 2-periodic)
Fade(c, x) ==
    IF c.variant = "strong"
    THEN MulDiv(Clip(MulDiv(x, 13, 10), 0, One),
                Clip(MulDiv(One - x, 13, 10), 0, One), One)
    ELSE LET w == x % (2 * One)
         IN  IF w <= One THEN SinPi(w) ELSE -SinPi(w - One)

\* the gain an onset at position x is stamped with: fade, or
\* fade * loudness in the stronger variant
Gain(c, x) ==
    IF c.variant = "strong" THEN MulDiv(Fade(c, x), Loudness(c, x), One)
    ELSE Fade(c, x)

\* hit[: end - start] * fade (* loudness)
Stamp(c, hit, m, x) ==
    LET faded == Scale(Prefix(hit, m), Fade(c, x))
    IN  IF c.variant = "strong" THEN Scale(faded, Loudness(c, x)) ELSE faded

\* mix = np.zeros(int(duration * sample_rate)): the length of the mix
MixSamples(c) == TruncDiv(c.duration * c.sample_rate, One)

\* the length rounded to the nearest sample in place of int()
SamplesRounded(c) ==
    SignOf(c.duration * c.sample_rate, 1)
        * RDiv(Abs(c.duration * c.sample_rate), One)

\* samples = int(total_duration * sample_rate)
Samples(c) == TruncDiv(c.duration * c.sample_rate, One)

\* start = int(t * sample_rate)
StartIndex(c, t) == TruncDiv(t * c.sample_rate, One)

\* end = min(start + len(hit), samples - 1): a clip one sample short of the
\* buffer's end
EndIndexShort(first, hitlen, samples) == Min(first + hitlen, samples - 1)

\* end = min(start + len(hit), samples)
EndIndex(first, hitlen, samples) == Min(first + hitlen, samples)

\* while t < total_duration
LoopCond(c, t) == t < c.duration

\* ------------------------------------------------- the tempo ramp
\* cos(2 pi * u / One) * One for a turn count u >= 0
CosTurn(u) == SinTurn(u + One \div 4)

\* np.hanning(M)[k] for 0 <= k < M: 0.5 - 0.5 cos(2 pi k / (M - 1)), and
\* the single sample 1.0 when M = 1
Hanning(M, k) ==
    IF M = 1 THEN One ELSE (One - CosTurn(RDiv(k * One, M - 1))) \div 2

\* beep_samples = int(beep_duration * sample_rate)
BeepSamples(r) == TruncDiv(r.beep_duration * r.sample_rate, One)

\* beep = np.sin(2 * np.pi * beep_freq * t_beep) * np.hanning(beep_samples),
\* t_beep = np.linspace(0, beep_duration, beep_samples, endpoint=False)
make_beep(r) ==
    LET M        == BeepSamples(r)
        turns(k) == RDiv(r.beep_freq * r.beep_duration * k, M)
    IN  [k \in 1..M |->
            MulDiv(SinTurn(turns(k - 1)), Hanning(M, k - 1), One) * AmpPerOne]

\* len(t) = int(sample_rate * duration)
RampSamples(r) == TruncDiv(r.sample_rate * r.duration, One)

\* the value 1 of phase: the accumulator is a float, which the model keeps
\* to the guard digits
PhaseOne(r, n) == One * Guard

\* bpm[k] of bpm = np.linspace(bpm_start, bpm_end, len(t)) in 1/One:
\* bpm_start + (bpm_end - bpm_start) k / (len(t) - 1), and the single value
\* bpm_start when len(t) = 1
RampBpm(r, n, k) ==
    IF n = 1 THEN r.bpm_start * One
    ELSE r.bpm_start * One
            + SignOf(r.bpm_end - r.bpm_start, 1)
                * RDiv(Abs(r.bpm_end - r.bpm_start) * k * One, n - 1)

\* bpm[i] / 60 / sample_rate, a float quotient: rounded to the last digit
\* of the accumulator
PhaseStep(r, n, k) ==
    SignOf(RampBpm(r, n, k), 1)
        * RDiv(Abs(RampBpm(r, n, k)) * Guard, 60 * r.sample_rate)

\* ------------------------------------------------------------- bounds
\* num_layers ranges over 1..MaxLayers
MaxLayers == 3
\* iterations of one layer's event loop the model follows (a loop whose
\* time cursor never reaches the duration is cut here)
MaxOnsets == 80
\* length of the signals handed to the normalization steps alone
MaxBuf == 2

\* ------------------------------------------------- the other envelopes
\* the Gaussian without the 2 of 2 * width ** 2
GaussianNarrow(x, center, width) ==
    LET r == RDiv(Abs(x - center) * One, width)
    IN  ExpNeg(RDiv(r * r, One))

\* gaussian_envelope: np.exp(-((x - center) ** 2) / (2 * width ** 2)), with
\* x, center and width in 1/One (width > 0)
gaussian_envelope(x, center, width) ==
    LET r == RDiv(Abs(x - center) * One, width)
    IN  ExpNeg(RDiv(r * r, 2 * One))

\* the fade with its fade-out starting at 0.5 in place of 0.75
LinearFadeEarly(progress) ==
    IF 4 * progress < One THEN 4 * progress
    ELSE IF 2 * progress > One THEN 4 * (One - progress)
    ELSE One

\* the linear fade of the loop-pattern generators:
\*   if progress < 0.25: volume = progress / 0.25
\*   elif progress > 0.75: volume = (1 - progress) / 0.25
\*   else: volume = 1.0
LinearFade(progress) ==
    IF 4 * progress < One THEN 4 * progress
    ELSE IF 4 * progress > 3 * One THEN 4 * (One - progress)
    ELSE One

\* the largest y in lo..hi with 2**(y / One) * One <= v, by bisection
RECURSIVE Log2Search(_, _, _)
Log2Search(v, lo, hi) ==
    IF lo >= hi THEN lo
    ELSE LET mid == (lo + hi + 1) \div 2
         IN  IF Exp2(mid) <= v THEN Log2Search(v, mid, hi)
             ELSE Log2Search(v, lo, mid - 1)

\* np.log2(v / One) * One for v > 0: doubled or halved into [1, 2), where
\* the mantissa's logarithm is searched
RECURSIVE Log2(_)
Log2(v) ==
    IF v < One THEN Log2(2 * v) - One
    ELSE IF v >= 2 * One THEN Log2(v \div 2) + One
    ELSE Log2Search(v, 0, One)

\* 20 * np.log10(volume), in 1/One dB, for 0 < volume <= One
\* (log10 2 = 0.30103)
Decibels(volume) == MulDiv(Log2(volume), 60206, One)

\* volume_db = 20 * np.log10(volume) if volume > 0 else -100
VolumeDb(volume) == IF volume > 0 THEN Decibels(volume) ELSE -100 * One

\* ------------------------------------------------- the oscillators
\* a / b rounded to nearest for b > 0 and a of either sign
SDiv(a, b) == SignOf(a, 1) * ((Abs(a) + b \div 2) \div b)

\* np.linspace(a, b, n)[k] for 0 <= k < n: a + k * (b - a) / (n - 1), and a
\* alone when n = 1
Linspace(a, b, n, k) == IF n = 1 THEN a ELSE a + SDiv(k * (b - a), n - 1)

\* np.linspace(a, b, n, endpoint=False)[k]: a + k * (b - a) / n
LinspaceOpen(a, b, n, k) == a + SDiv(k * (b - a), n)

\* the phase as frequency times elapsed time, f[k] * k, in place of the
\* running sum
InstantPhase(f) == [k \in 1..Len(f) |-> f[k] * (k - 1)]

\* f[lo] + ... + f[hi], by halves
RECURSIVE SumRange(_, _, _)
SumRange(f, lo, hi) ==
    IF lo > hi THEN 0
    ELSE IF lo = hi THEN f[lo]
    ELSE LET mid == (lo + hi) \div 2
         IN  SumRange(f, lo, mid) + SumRange(f, mid + 1, hi)

\* np.cumsum(f)
CumSum(f) == [k \in 1..Len(f) |-> SumRange(f, 1, k)]

\* the turns of phase = 2 * np.pi * np.cumsum(f) / sample_rate at a sample
\* whose running sum is c (c in 1/One Hz, the turns in 1/One)
Turns(c, sample_rate) == c \div sample_rate

\* the starting frequency as base_frequency * 2 ** (octave_index /
\* num_octaves): a fraction of an octave per layer
OctaveFreqFraction(c, octave_index) ==
    MulDiv(c.base_frequency,
           Exp2(RDiv(octave_index * One, c.num_octaves)), One)

\* octave_freq = self.base_frequency * (2 ** octave_index)
OctaveFreq(c, octave_index) == c.base_frequency * Pow2(octave_index)

\* frequency = octave_freq * (2 ** (+-t / self.duration_seconds *
\* self.rise_rate)) for t = np.linspace(0, duration_seconds, num_samples,
\* endpoint=False)
ShepardFrequency(c, octave_index, num_samples) ==
    [k \in 1..num_samples |->
        LET tk == LinspaceOpen(0, c.duration_seconds, num_samples, k - 1)
            e  == MulDiv(Ratio(tk, c.duration_seconds), c.rise_rate, One)
        IN  MulDiv(OctaveFreq(c, octave_index),
                   Exp2(IF c.direction = "up" THEN e ELSE -e), One)]

\* frequency / self.base_frequency in 1/One, for two positive frequencies
FreqRatio(f, base) == (f \div base) * One + MulQR(f % base, One, base).q

\* the spacing of the floats around v >= 0: the last digit below 1, and
\* twice as much with every power of 2 above
RECURSIVE Ulp(_)
Ulp(v) == IF v < One THEN 1 ELSE 2 * Ulp(v \div 2)

\* v >= 0 rounded to the floats around it, a tie to the even neighbour
RoundFloat(v) ==
    LET u    == Ulp(v)
        down == (v \div u) * u
        rest == v - down
    IN  IF 2 * rest < u THEN down
        ELSE IF 2 * rest > u THEN down + u
        ELSE IF (down \div u) % 2 = 0 THEN down
        ELSE down + u

\* a % b of two floats, b > 0: fmod(a, b), and for a negative remainder
\* the sum fmod(a, b) + b, which is rounded to a float and can be b itself
FloatMod(a, b) ==
    IF a >= 0 THEN a % b
    ELSE IF (-a) % b = 0 THEN 0
    ELSE RoundFloat(b - ((-a) % b))

\* freq_position = (np.log2(frequency / self.base_frequency)
\*                     % self.num_octaves) / self.num_octaves
FreqPosition(c, f) ==
    FloatMod(Log2(FreqRatio(f, c.base_frequency)), c.num_octaves * One)
        \div c.num_octaves

\* generate_shepard_layer: wave * envelope, with wave = np.sin(phase) and
\* envelope = self.gaussian_envelope(freq_position, 0.5, 0.3)
ShepardLayer(c, frequency, cum) ==
    [k \in 1..Len(frequency) |->
        MulDiv(SinTurn(Turns(cum[k], c.sample_rate) % One),
               gaussian_envelope(FreqPosition(c, frequency[k]),
                                 One \div 2, 3 * (One \div 10)),
               One) * AmpPerOne]

\* output += layer / self.num_octaves
AddShare(output, layer, num_octaves) ==
    [k \in 1..Len(output) |-> output[k] + TruncDiv(layer[k], num_octaves)]

\* the tone under a Hanning window, amp * np.sin(phase) * np.hanning(n): an
\* amplitude that changes along the tone
PitchSignalWindowed(amp, cum, sample_rate) ==
    [k \in 1..Len(cum) |->
        MulDiv(MulDiv(SinTurn(Turns(cum[k], sample_rate) % One), amp, One),
               Hanning(Len(cum), k - 1), One) * AmpPerOne]

\* signal = amp * np.sin(phase)
PitchSignal(amp, cum, sample_rate) ==
    [k \in 1..Len(cum) |->
        MulDiv(SinTurn(Turns(cum[k], sample_rate) % One), amp, One)
            * AmpPerOne]

\* ------------------------------------------------------- the requests
Sec(n) == n * One

\* requests with positive duration, tempo, cycle length and sample rate
ValidConfigs ==
    { [variant |-> v, duration |-> d, base_tempo |-> b, num_layers |-> n,
       accelerating |-> a, cycle_duration |-> cy, sample_rate |-> 100] :
        v \in Variants, d \in {Sec(1), Sec(4)}, b \in {60, 90},
        n \in 1..MaxLayers, a \in BOOLEAN, cy \in {Sec(1), Sec(2)} }

\* the exponential generators take no cycle_duration
TakesCycle(c) == c.variant = "cyclic" \/ c.cycle_duration = Sec(2)

\* generate_risset(duration=30, base_tempo=90, cycle_duration=6.0) of the
\* cyclic generator, with num_layers=3 as in its __main__
LoopConfigs ==
    { [variant |-> "cyclic", duration |-> Sec(30), base_tempo |-> 90,
       num_layers |-> 3, accelerating |-> a, cycle_duration |-> Sec(6),
       sample_rate |-> 100] : a \in BOOLEAN }

\* the calls of the __main__ blocks of the exponential generators: 20 s at
\* 80 bpm up and down, and the first call of each direction of the stronger
\* one, 8 s up from 60 bpm and 8 s down from 120 bpm
MainConfigs ==
    { [variant |-> "exp", duration |-> Sec(20), base_tempo |-> 80,
       num_layers |-> 3, accelerating |-> a, cycle_duration |-> Sec(2),
       sample_rate |-> 100] : a \in BOOLEAN }
    \cup { [variant |-> "strong", duration |-> Sec(8), base_tempo |-> b[1],
            num_layers |-> 3, accelerating |-> b[2],
            cycle_duration |-> Sec(2), sample_rate |-> 100] :
                b \in {<<60, TRUE>>, <<120, FALSE>>} }

Default(v) ==
    [variant |-> v, duration |-> Sec(4), base_tempo |-> 90, num_layers |-> 2,
     accelerating |-> TRUE, cycle_duration |-> Sec(2), sample_rate |-> 100]

\* requests with one parameter that is zero or negative
InvalidConfigs ==
    UNION { { [Default(v) EXCEPT !.base_tempo = 0],
              [Default(v) EXCEPT !.base_tempo = -60],
              [Default(v) EXCEPT !.base_tempo = -60, !.accelerating = FALSE],
              [Default(v) EXCEPT !.duration = 0],
              [Default(v) EXCEPT !.duration = -50],
              [Default(v) EXCEPT !.duration = -Sec(1)],
              [Default(v) EXCEPT !.sample_rate = 0],
              [Default(v) EXCEPT !.num_layers = 0] } : v \in Variants }
    \cup { [Default("cyclic") EXCEPT !.cycle_duration = 0],
           [Default("cyclic") EXCEPT !.cycle_duration = -Sec(2)],
           [Default("cyclic") EXCEPT !.sample_rate = 0, !.base_tempo = -60] }

\* requests whose duration ends 4 ms and 15 ms after an onset of the layer
\* (at 3.2049 s), inside the hit that onset stamps; and a decelerating
\* layer whose second onset falls a rounding error after a third of a cycle
EdgeConfigs ==
    { [Default("cyclic") EXCEPT !.num_layers = 1, !.duration = d] :
        d \in {32089, 32199} }
    \cup { [Default("cyclic") EXCEPT !.num_layers = 3, !.duration = Sec(3),
                                    !.base_tempo = 60,
                                    !.accelerating = FALSE,
                                    !.cycle_duration = 23810] }

\* the arguments of a generate_ramp call: the beep of the ramps list (800 Hz,
\* 0.1 s)
RampCall(bpm_start, bpm_end, duration, sample_rate) ==
    [bpm_start |-> bpm_start, bpm_end |-> bpm_end, duration |-> duration,
     beep_freq |-> 800, beep_duration |-> One \div 10,
     sample_rate |-> sample_rate]

\* the sample rate of the ramps followed
RampRate == 70

DefaultRamp == RampCall(60, 100, Sec(2), RampRate)

\* ramps up and down as in the ramps list, over 2 s and over 2.3 s (where the
\* last beep starts 3 or 5 samples before the end of the signal), a steady
\* tempo of 90 BPM and one of 120 BPM (whose beat period is exactly 35
\* samples), a tempo of 0, and the durations 0 and -1 s
RampConfigs ==
    { RampCall(b[1], b[2], d, RampRate) :
        b \in {<<60, 100>>, <<100, 60>>}, d \in {Sec(2), 23000} }
    \cup { RampCall(90, 90, Sec(2), RampRate),
           RampCall(120, 120, Sec(2), RampRate),
           RampCall(0, 0, Sec(2), RampRate),
           RampCall(60, 100, 0, RampRate),
           RampCall(60, 100, -Sec(1), RampRate) }

\* the sample rate of the Shepard layers followed
ShepardRate == 20

ShepardCall(duration_seconds, num_octaves, rise_rate, direction) ==
    [duration_seconds |-> duration_seconds, base_frequency |-> 55 * One,
     num_octaves |-> num_octaves, rise_rate |-> rise_rate,
     direction |-> direction, sample_rate |-> ShepardRate]

\* Shepard generators of 1 to 3 octaves over 1 s and 2 s, both directions,
\* with the rise rates 0 (a steady pitch), 0.5, 1 and 2; and a falling tone
\* with the rise rate 0.004, whose first samples lie a rounding error below
\* the base frequency
ShepardConfigs ==
    { ShepardCall(d, n, r, dir) :
        d \in {Sec(1), Sec(2)}, n \in 1..MaxLayers,
        r \in {0, One \div 2, One, 2 * One}, dir \in {"up", "down"} }
    \cup { ShepardCall(Sec(2), MaxLayers, r, "down") : r \in {40} }

\* the sample rate of the pitch ramps followed (sr)
PitchRate == 8

\* the ramps list of the pitch script: [start_Hz, end_Hz, duration_s,
\* amplitude]
PitchRamps ==
    << [f0 |-> 200 * One, f1 |-> 400 * One, duration |-> 5,
        amp |-> 8 * (One \div 10)],
       [f0 |-> 300 * One, f1 |-> 800 * One, duration |-> 10,
        amp |-> 8 * (One \div 10)],
       [f0 |-> 500 * One, f1 |-> 2000 * One, duration |-> 12,
        amp |-> 8 * (One \div 10)] >>

Configs ==
    {c \in ValidConfigs : TakesCycle(c)} \cup LoopConfigs \cup MainConfigs
        \cup EdgeConfigs \cup InvalidConfigs

\* ------------------------------------------------------------- state
VARIABLES
    cfg,        \* the arguments of the generate_risset call
    pc,         \* where the call stands: "call", "for", "while", "write",
                \* "done", or "raised" once an exception left it; in
                \* generate_ramp "ramp_call", "ramp_for", "ramp_write",
                \* "ramp_done", "ramp_raised"
    raised,     \* the exception that left the call, or "none"
    made_dir,   \* os.makedirs(output_dir) has run
    mix_alloc,  \* the mix buffer has been allocated
    mix,        \* the mix buffer
    i,          \* generate_risset's loop variable: the layer being made
    layers,     \* number of layer buffers allocated so far
    layer,      \* generate_layer's buffer
    returned,   \* the layers generate_layer has returned to generate_risset,
                \* in order, each with the layer_index it was called with
    t,          \* generate_layer's time cursor
    onsets,     \* the onsets generate_layer has stamped into layer, in order
    last,       \* what the latest loop iteration computed
    out,        \* the normalized mix, once normalized
    written,    \* sf.write and the mp3 export have run
    ramp,       \* the arguments of the generate_ramp call
    ramp_i,     \* generate_ramp's loop variable i
    phase,      \* generate_ramp's phase accumulator
    signal,     \* generate_ramp's buffer
    beeps,      \* the beeps generate_ramp has stamped into signal, in order
    nkind,      \* normalization alone: which generator's step
    nin,        \* normalization alone: the signal handed in
    nout,       \* normalization alone: the outcome
    env,        \* an envelope alone: the position handed in and the gain
    shep,       \* ShepardToneGenerator.generate: the generator's fields, the
                \* octave of the loop, the frequency, running sum and
                \* samples of the last layer, and the output array
    par,        \* the layers of one request generated side by side: the
                \* request, each generate_layer call's cursor, buffer and
                \* whether it has returned, and the mix once summed
    lp,         \* a loop-pattern generator's generate: the generator's
                \* fields, the layer of the loop, the tempos and cursor of
                \* its generate_layer call, and the turn last taken
    mg,         \* the matching GUI: its beep workers and what has played
    app,        \* AudioRatingApp: the list shown, the buttons, the item
                \* playing and the polling callbacks pending
    pitch       \* the pitch script: the index into ramps, and freqs, the
                \* running sum and signal of the ramp last generated

vars == <<cfg, pc, raised, made_dir, mix_alloc, mix, i, layers, layer, t,
          onsets, last, out, written, returned, ramp, ramp_i, phase, signal,
          beeps, nkind, nin, nout, env, shep, pitch, par, lp, mg, app>>

rampVars == <<ramp, ramp_i, phase, signal, beeps>>

callVars == <<cfg, pc, raised, made_dir, mix_alloc, mix, i, layers, layer, t,
              onsets, last, out, written, returned>>

normVars == <<nkind, nin, nout>>

\* the state of the parts that are followed on their own
auxVars == <<env, shep, pitch, par>>

\* the variables of generate_risset and generate_layer alone
rissetVars == <<cfg, made_dir, mix_alloc, mix, i, layers, layer, t, onsets,
                last, returned>>

NoEnv ==
    [kind |-> "none", x |-> 0, center |-> 0, width |-> 0,
     accelerating |-> TRUE, applied |-> FALSE, fade |-> 0, gain |-> 0,
     db |-> 0]

\* none of the parts followed on their own is in use
NoShepard ==
    [self |-> ShepardCall(0, 0, 0, "up"), octave |-> 0, frequency |-> <<>>,
     cum |-> <<>>, layer |-> <<>>, output |-> <<>>]

NoPitch == [idx |-> 0, freqs |-> <<>>, cum |-> <<>>, signal |-> <<>>]

NoPar == [cfg |-> Default("cyclic"), tasks |-> <<>>, summed |-> FALSE,
          mix |-> <<>>]

\* the state of the loop-pattern generators and of the two GUIs
moreVars == <<lp, mg, app>>

NoLoop == [pc |-> "none"]

NoMatch == [pc |-> "none"]

NoApp == [pc |-> "none"]

MoreIdle == lp = NoLoop /\ mg = NoMatch /\ app = NoApp

AuxIdle ==
    /\ env = NoEnv /\ shep = NoShepard /\ pitch = NoPitch /\ par = NoPar
    /\ MoreIdle

NoResult == [status |-> "none", buf |-> <<>>, nan |-> FALSE]

NoStep == [computed |-> FALSE, freq |-> 0, stamped |-> FALSE]

\* a call of generate_risset, or a call of generate_ramp
Init ==
    /\ \/ /\ pc = "call"
          /\ cfg \in Configs
          /\ ramp = DefaultRamp
          /\ AuxIdle
       \/ /\ pc = "ramp_call"
          /\ cfg = Default("cyclic")
          /\ ramp \in RampConfigs
          /\ AuxIdle
       \/ /\ pc = "sh_call"
          /\ cfg = Default("cyclic")
          /\ ramp = DefaultRamp
          /\ env = NoEnv
          /\ shep \in { [NoShepard EXCEPT !.self = c] : c \in ShepardConfigs }
          /\ pitch = NoPitch
          /\ par = NoPar
          /\ MoreIdle
       \/ /\ pc = "pitch_for"
          /\ cfg = Default("cyclic")
          /\ ramp = DefaultRamp
          /\ AuxIdle
    /\ ramp_i = 0
    /\ phase = 0
    /\ signal = <<>>
    /\ beeps = <<>>
    /\ raised = "none"
    /\ made_dir = FALSE
    /\ mix_alloc = FALSE
    /\ mix = <<>>
    /\ i = 0
    /\ layers = 0
    /\ layer = <<>>
    /\ returned = <<>>
    /\ t = 0
    /\ onsets = <<>>
    /\ last = NoStep
    /\ out = NoResult
    /\ written = FALSE
    /\ nkind = "none"
    /\ nin = <<>>
    /\ nout = NoResult

\* generate_risset up to its loop: os.makedirs, base_freq, and
\* mix = np.zeros(int(duration * sample_rate)), which raises ValueError for a
\* negative length
Enter ==
    /\ pc = "call"
    /\ made_dir' = TRUE
    /\ IF MixSamples(cfg) < 0
       THEN /\ pc' = "raised"
            /\ raised' = "ValueError"
            /\ UNCHANGED <<mix_alloc, mix>>
       ELSE /\ pc' = "for"
            /\ mix_alloc' = TRUE
            /\ mix' = Zeros(MixSamples(cfg))
            /\ UNCHANGED raised
    /\ UNCHANGED <<cfg, i, layers, layer, t, onsets, last, out, written>>
    /\ UNCHANGED rampVars
    /\ UNCHANGED normVars
    /\ UNCHANGED returned
    /\ UNCHANGED auxVars
    /\ UNCHANGED moreVars

\* for i in range(num_layers): the call of generate_layer up to its loop:
\* layer = np.zeros(samples), t = 0.0
CallLayer ==
    /\ pc = "for"
    /\ i < cfg.num_layers
    /\ pc' = "while"
    /\ layers' = layers + 1
    /\ layer' = Zeros(Samples(cfg))
    /\ t' = 0
    /\ onsets' = <<>>
    /\ last' = NoStep
    /\ UNCHANGED <<cfg, raised, made_dir, mix_alloc, mix, i, out, written>>
    /\ UNCHANGED rampVars
    /\ UNCHANGED normVars
    /\ UNCHANGED returned
    /\ UNCHANGED auxVars
    /\ UNCHANGED moreVars

\* one iteration of generate_layer's while loop, for layer i at cursor t
LayerStep ==
    /\ pc = "while"
    /\ LoopCond(cfg, t)
    /\ Len(onsets) < MaxOnsets
    /\ IF cfg.variant = "cyclic" /\ cfg.cycle_duration = 0
       THEN \* t / cycle_duration
            /\ pc' = "raised"
            /\ raised' = "ZeroDivisionError"
            /\ last' = NoStep
            /\ UNCHANGED <<layer, t, onsets>>
       ELSE LET x     == Position(cfg, i, t)
                freq  == EventFreq(cfg, i, x)
                hit   == make_hit(cfg.variant, cfg.sample_rate,
                                  HitFreq(cfg.variant, i))
                start == StartIndex(cfg, t)
                end   == EndIndex(start, Len(hit), Len(layer))
                rhs   == Stamp(cfg, hit, end - start, x)
            IN  IF freq = 0
                THEN \* interval = 1.0 / freq
                     /\ pc' = "raised"
                     /\ raised' = "ZeroDivisionError"
                     /\ last' = [computed |-> TRUE, freq |-> freq,
                                 stamped |-> FALSE]
                     /\ UNCHANGED <<layer, t, onsets>>
                ELSE IF ~CanAddInto(layer, start, end, rhs)
                THEN \* layer[start:end] += ...: shapes do not broadcast
                     /\ pc' = "raised"
                     /\ raised' = "ValueError"
                     /\ last' = [computed |-> TRUE, freq |-> freq,
                                 stamped |-> FALSE]
                     /\ UNCHANGED <<layer, t, onsets>>
                ELSE /\ layer' = AddInto(layer, start, end, rhs)
                     /\ t' = t + Interval(freq)
                     /\ onsets' = Append(onsets,
                            [t |-> t, x |-> x, freq |-> freq,
                             gain |-> Gain(cfg, x), start |-> start,
                             end |-> end, hitlen |-> Len(hit)])
                     /\ last' = [computed |-> TRUE, freq |-> freq,
                                 stamped |-> TRUE]
                     /\ UNCHANGED <<pc, raised>>
    /\ UNCHANGED <<cfg, made_dir, mix_alloc, mix, i, layers, out, written>>
    /\ UNCHANGED rampVars
    /\ UNCHANGED normVars
    /\ UNCHANGED returned
    /\ UNCHANGED auxVars
    /\ UNCHANGED moreVars

\* the loop ends, generate_layer returns layer, and generate_risset adds it:
\* mix += generate_layer(...)
LayerReturn ==
    /\ pc = "while"
    /\ ~LoopCond(cfg, t)
    /\ IF Len(layer) = Len(mix)
       THEN /\ mix' = AddArrays(mix, layer)
            /\ returned' = Append(returned, [index |-> i, buf |-> layer])
            /\ i' = i + 1
            /\ pc' = "for"
            /\ UNCHANGED raised
       ELSE /\ pc' = "raised"
            /\ raised' = "ValueError"
            /\ UNCHANGED <<mix, i, returned>>
    /\ UNCHANGED <<cfg, made_dir, mix_alloc, layers, layer, t, onsets, last,
                   out, written>>
    /\ UNCHANGED rampVars
    /\ UNCHANGED normVars
    /\ UNCHANGED auxVars
    /\ UNCHANGED moreVars

\* after the last layer: mix /= np.max(np.abs(mix) + 1e-9); mix keeps the
\* sum of the layers here and out takes the normalized samples
Normalize ==
    /\ pc = "for"
    /\ i >= cfg.num_layers
    /\ LET r == EventNormalize(mix)
       IN  IF r.status = "ok"
           THEN /\ out' = r
                /\ pc' = "write"
                /\ UNCHANGED raised
           ELSE /\ pc' = "raised"
                /\ raised' = r.status
                /\ UNCHANGED out
    /\ UNCHANGED <<cfg, made_dir, mix_alloc, mix, i, layers, layer, t, onsets,
                   last, written>>
    /\ UNCHANGED rampVars
    /\ UNCHANGED normVars
    /\ UNCHANGED returned
    /\ UNCHANGED auxVars
    /\ UNCHANGED moreVars

\* sf.write(wav_path, mix, sample_rate), the mp3 export, os.remove
Write ==
    /\ pc = "write"
    /\ written' = TRUE
    /\ pc' = "done"
    /\ UNCHANGED <<cfg, raised, made_dir, mix_alloc, mix, i, layers, layer, t,
                   onsets, last, out>>
    /\ UNCHANGED rampVars
    /\ UNCHANGED normVars
    /\ UNCHANGED returned
    /\ UNCHANGED auxVars
    /\ UNCHANGED moreVars

\* generate_ramp up to its loop: the beep, t = np.linspace(0, duration,
\* int(sample_rate * duration)), which raises ValueError for a negative
\* number of samples, bpm, signal = np.zeros(len(t)), phase = 0
RampEnter ==
    /\ pc = "ramp_call"
    /\ IF BeepSamples(ramp) < 0 \/ RampSamples(ramp) < 0
       THEN /\ pc' = "ramp_raised"
            /\ raised' = "ValueError"
            /\ UNCHANGED signal
       ELSE /\ pc' = "ramp_for"
            /\ signal' = Zeros(RampSamples(ramp))
            /\ UNCHANGED raised
    /\ ramp_i' = 0
    /\ phase' = 0
    /\ UNCHANGED <<ramp, beeps>>
    /\ UNCHANGED <<cfg, made_dir, mix_alloc, mix, i, layers, layer, t, onsets,
                   last, out, written>>
    /\ UNCHANGED <<nkind, nin, nout>>
    /\ UNCHANGED returned
    /\ UNCHANGED auxVars
    /\ UNCHANGED moreVars

\* one turn of for i in range(len(t)): phase += bpm[i] / 60 / sample_rate,
\* and when phase >= 1 the beep is added at i, cut at the end of the signal,
\* and phase -= 1
RampStep ==
    /\ pc = "ramp_for"
    /\ ramp_i < Len(signal)
    /\ LET n    == Len(signal)
           p    == phase + PhaseStep(ramp, n, ramp_i)
           beep == make_beep(ramp)
           end  == EndIndex(ramp_i, Len(beep), n)
           rhs  == Prefix(beep, end - ramp_i)
       IN  IF p < PhaseOne(ramp, n)
           THEN /\ phase' = p
                /\ ramp_i' = ramp_i + 1
                /\ UNCHANGED <<pc, raised, signal, beeps>>
           ELSE IF ~CanAddInto(signal, ramp_i, end, rhs)
           THEN /\ pc' = "ramp_raised"
                /\ raised' = "ValueError"
                /\ phase' = p
                /\ UNCHANGED <<ramp_i, signal, beeps>>
           ELSE /\ signal' = AddInto(signal, ramp_i, end, rhs)
                /\ beeps' = Append(beeps, [start |-> ramp_i, end |-> end])
                /\ phase' = p - PhaseOne(ramp, n)
                /\ ramp_i' = ramp_i + 1
                /\ UNCHANGED <<pc, raised>>
    /\ UNCHANGED ramp
    /\ UNCHANGED <<cfg, made_dir, mix_alloc, mix, i, layers, layer, t, onsets,
                   last, out, written>>
    /\ UNCHANGED <<nkind, nin, nout>>
    /\ UNCHANGED returned
    /\ UNCHANGED auxVars
    /\ UNCHANGED moreVars

\* after the loop: signal /= np.max(np.abs(signal) + 1e-9); signal keeps the
\* beeps here and out takes the normalized samples
RampNormalize ==
    /\ pc = "ramp_for"
    /\ ramp_i >= Len(signal)
    /\ LET r == EventNormalize(signal)
       IN  IF r.status = "ok"
           THEN /\ out' = r
                /\ pc' = "ramp_write"
                /\ UNCHANGED raised
           ELSE /\ pc' = "ramp_raised"
                /\ raised' = r.status
                /\ UNCHANGED out
    /\ UNCHANGED <<ramp, ramp_i, phase, signal, beeps>>
    /\ UNCHANGED <<cfg, made_dir, mix_alloc, mix, i, layers, layer, t, onsets,
                   last, written>>
    /\ UNCHANGED <<nkind, nin, nout>>
    /\ UNCHANGED returned
    /\ UNCHANGED auxVars
    /\ UNCHANGED moreVars

\* sf.write(wav_path, signal, sample_rate), the mp3 export, os.remove
RampWrite ==
    /\ pc = "ramp_write"
    /\ written' = TRUE
    /\ pc' = "ramp_done"
    /\ UNCHANGED <<ramp, ramp_i, phase, signal, beeps>>
    /\ UNCHANGED <<cfg, raised, made_dir, mix_alloc, mix, i, layers, layer, t,
                   onsets, last, out>>
    /\ UNCHANGED <<nkind, nin, nout>>
    /\ UNCHANGED returned
    /\ UNCHANGED auxVars
    /\ UNCHANGED moreVars

\* ShepardToneGenerator.generate up to its loop: num_samples =
\* int(duration_seconds * sample_rate) and output = np.zeros(num_samples),
\* which raises ValueError for a negative length
ShepardEnter ==
    /\ pc = "sh_call"
    /\ LET c == shep.self
           num_samples == TruncDiv(c.duration_seconds * c.sample_rate, One)
       IN  IF num_samples < 0
           THEN /\ pc' = "sh_raised"
                /\ raised' = "ValueError"
                /\ UNCHANGED shep
           ELSE /\ pc' = "sh_for"
                /\ shep' = [shep EXCEPT !.output = Zeros(num_samples)]
                /\ UNCHANGED raised
    /\ UNCHANGED <<out, written>>
    /\ UNCHANGED rissetVars
    /\ UNCHANGED rampVars
    /\ UNCHANGED normVars
    /\ UNCHANGED <<env, pitch, par>>
    /\ UNCHANGED moreVars

\* one turn of for octave in range(self.num_octaves):
\* layer = self.generate_shepard_layer(octave, num_samples), then
\* output += layer / self.num_octaves
ShepardLayerStep ==
    /\ pc = "sh_for"
    /\ shep.octave < shep.self.num_octaves
    /\ LET c         == shep.self
           frequency == ShepardFrequency(c, shep.octave, Len(shep.output))
           cum       == CumSum(frequency)
           layer_    == ShepardLayer(c, frequency, cum)
       IN  shep' = [shep EXCEPT
                       !.frequency = frequency,
                       !.cum = cum,
                       !.layer = layer_,
                       !.output = AddShare(shep.output, layer_,
                                           c.num_octaves),
                       !.octave = shep.octave + 1]
    /\ UNCHANGED <<pc, raised, out, written>>
    /\ UNCHANGED rissetVars
    /\ UNCHANGED rampVars
    /\ UNCHANGED normVars
    /\ UNCHANGED <<env, pitch, par>>
    /\ UNCHANGED moreVars

\* after the loop: output = output / np.max(np.abs(output)) * 0.8; shep.output
\* keeps the sum and out takes the normalized samples
ShepardNormalizeStep ==
    /\ pc = "sh_for"
    /\ shep.octave >= shep.self.num_octaves
    /\ LET r == ShepardNormalize(shep.output)
       IN  IF r.status = "ok"
           THEN /\ out' = r
                /\ pc' = "sh_write"
                /\ UNCHANGED raised
           ELSE /\ pc' = "sh_raised"
                /\ raised' = r.status
                /\ UNCHANGED out
    /\ UNCHANGED written
    /\ UNCHANGED rissetVars
    /\ UNCHANGED rampVars
    /\ UNCHANGED normVars
    /\ UNCHANGED auxVars
    /\ UNCHANGED moreVars

\* np.int16(output * 32767), wavfile.write, export, os.remove
ShepardWrite ==
    /\ pc = "sh_write"
    /\ written' = TRUE
    /\ pc' = "sh_done"
    /\ UNCHANGED <<raised, out>>
    /\ UNCHANGED rissetVars
    /\ UNCHANGED rampVars
    /\ UNCHANGED normVars
    /\ UNCHANGED auxVars
    /\ UNCHANGED moreVars

\* one turn of the pitch script's for ramp in ramps, up to the signal:
\* t = np.linspace(0, duration, int(sr * duration)),
\* freqs = np.linspace(f0, f1, len(t)),
\* phase = 2 * np.pi * np.cumsum(freqs) / sr, signal = amp * np.sin(phase)
PitchGenerate ==
    /\ pc = "pitch_for"
    /\ pitch.idx < Len(PitchRamps)
    /\ LET r     == PitchRamps[pitch.idx + 1]
           n     == PitchRate * r.duration
           freqs == [k \in 1..n |-> Linspace(r.f0, r.f1, n, k - 1)]
           cum   == CumSum(freqs)
       IN  pitch' = [pitch EXCEPT
                        !.freqs = freqs,
                        !.cum = cum,
                        !.signal = PitchSignal(r.amp, cum, PitchRate)]
    /\ pc' = "pitch_write"
    /\ written' = FALSE
    /\ UNCHANGED <<raised, out>>
    /\ UNCHANGED rissetVars
    /\ UNCHANGED rampVars
    /\ UNCHANGED normVars
    /\ UNCHANGED <<env, shep, par>>
    /\ UNCHANGED moreVars

\* the rest of the turn: sf.write(wav_path, signal, sr), export, os.remove
PitchWrite ==
    /\ pc = "pitch_write"
    /\ written' = TRUE
    /\ pitch' = [pitch EXCEPT !.idx = pitch.idx + 1]
    /\ pc' = IF pitch.idx + 1 < Len(PitchRamps) THEN "pitch_for"
             ELSE "pitch_done"
    /\ UNCHANGED <<raised, out>>
    /\ UNCHANGED rissetVars
    /\ UNCHANGED rampVars
    /\ UNCHANGED normVars
    /\ UNCHANGED <<env, shep, par>>
    /\ UNCHANGED moreVars

Next ==
    \/ Enter
    \/ CallLayer
    \/ LayerStep
    \/ LayerReturn
    \/ Normalize
    \/ Write
    \/ RampEnter
    \/ RampStep
    \/ RampNormalize
    \/ RampWrite
    \/ ShepardEnter
    \/ ShepardLayerStep
    \/ ShepardNormalizeStep
    \/ ShepardWrite
    \/ PitchGenerate
    \/ PitchWrite

Spec == Init /\ [][Next]_vars

\* ------------------------------------------ the normalization steps alone
\* sample values handed to the normalization steps: silence, one unit
\* (1e-9), values round 1e-3, half scale, full scale and 2.0
AmpValues ==
    {0, 1, -999998, 999999, 1000 * 1000, -(AmpOne \div 2), AmpOne, 2 * AmpOne}

RECURSIVE Signals(_)
Signals(n) ==
    IF n = 0 THEN {<<>>}
    ELSE Signals(n - 1)
         \cup {Append(b, a) : b \in {q \in Signals(n - 1) : Len(q) = n - 1},
                              a \in AmpValues}

\* the generators whose normalization step is applied: "event" (the three
\* event generators and generate_ramp), "shepard", "tempo" (the first
\* tempo-ramp script)
NormKinds == {"event", "shepard", "tempo"}

InitNorm ==
    /\ cfg = Default("cyclic")
    /\ ramp = DefaultRamp
    /\ ramp_i = 0
    /\ phase = 0
    /\ signal = <<>>
    /\ beeps = <<>>
    /\ pc = "idle"
    /\ raised = "none"
    /\ made_dir = FALSE
    /\ mix_alloc = FALSE
    /\ mix = <<>>
    /\ i = 0
    /\ layers = 0
    /\ layer = <<>>
    /\ returned = <<>>
    /\ t = 0
    /\ onsets = <<>>
    /\ last = NoStep
    /\ out = NoResult
    /\ written = FALSE
    /\ nkind \in NormKinds
    /\ nin \in Signals(MaxBuf)
    /\ nout = NoResult
    /\ AuxIdle

NormalizeEvent ==
    /\ nkind = "event"
    /\ nout.status = "none"
    /\ nout' = EventNormalize(nin)
    /\ UNCHANGED <<nkind, nin>>
    /\ UNCHANGED callVars
    /\ UNCHANGED rampVars
    /\ UNCHANGED auxVars
    /\ UNCHANGED moreVars

NormalizeShepard ==
    /\ nkind = "shepard"
    /\ nout.status = "none"
    /\ nout' = ShepardNormalize(nin)
    /\ UNCHANGED <<nkind, nin>>
    /\ UNCHANGED callVars
    /\ UNCHANGED rampVars
    /\ UNCHANGED auxVars
    /\ UNCHANGED moreVars

NormalizeTempo ==
    /\ nkind = "tempo"
    /\ nout.status = "none"
    /\ nout' = TempoNormalize(nin)
    /\ UNCHANGED <<nkind, nin>>
    /\ UNCHANGED callVars
    /\ UNCHANGED rampVars
    /\ UNCHANGED auxVars
    /\ UNCHANGED moreVars

NextNorm ==
    \/ NormalizeEvent
    \/ NormalizeShepard
    \/ NormalizeTempo

SpecNorm == InitNorm /\ [][NextNorm]_vars

\* ------------------------------------------------ an envelope alone
\* positions per unit followed in [0, 1]
EnvPoints == 100

\* the positions handed to the envelopes: a grid over [0, 1], the corners of
\* the linear fade and of the gate, and their neighbours
Positions ==
    { (k * One) \div EnvPoints : k \in 0..EnvPoints }
        \cup { c + d : c \in {One \div 4, One \div 2, 3 * (One \div 4)},
                       d \in {-1, 0, 1} }
        \cup { 1, One - 1 }

EnvInput(kind, x, center, width, accelerating) ==
    [NoEnv EXCEPT !.kind = kind, !.x = x, !.center = center,
                  !.width = width, !.accelerating = accelerating]

\* the envelopes and their arguments: the Gaussian with the center 0.5 and
\* width 0.3 of the Shepard layer and with two other pairs
EnvInputs ==
    { EnvInput("gaussian", x, cw[1], cw[2], TRUE) :
        x \in Positions,
        cw \in { <<One \div 2, 3 * (One \div 10)>>,
                 <<3 * (One \div 10), 3 * (One \div 10)>>,
                 <<One \div 2, One \div 2>> } }
    \cup { EnvInput(kind, x, 0, 0, TRUE) :
            kind \in {"sine", "linear"}, x \in Positions }
    \cup { EnvInput("gate", x, 0, 0, a) : x \in Positions, a \in BOOLEAN }

\* the state of the calls and of the normalization when neither is in use
BaseIdle ==
    /\ cfg = Default("cyclic")
    /\ ramp = DefaultRamp
    /\ ramp_i = 0
    /\ phase = 0
    /\ signal = <<>>
    /\ beeps = <<>>
    /\ pc = "idle"
    /\ raised = "none"
    /\ made_dir = FALSE
    /\ mix_alloc = FALSE
    /\ mix = <<>>
    /\ i = 0
    /\ layers = 0
    /\ layer = <<>>
    /\ returned = <<>>
    /\ t = 0
    /\ onsets = <<>>
    /\ last = NoStep
    /\ out = NoResult
    /\ written = FALSE
    /\ nkind = "none"
    /\ nin = <<>>
    /\ nout = NoResult

InitEnv ==
    /\ BaseIdle
    /\ env \in EnvInputs
    /\ shep = NoShepard
    /\ pitch = NoPitch
    /\ par = NoPar
    /\ MoreIdle

\* envelope = self.gaussian_envelope(freq_position, 0.5, 0.3)
ApplyGaussian ==
    /\ env.kind = "gaussian"
    /\ ~env.applied
    /\ env' = [env EXCEPT !.applied = TRUE,
                          !.gain = gaussian_envelope(env.x, env.center,
                                                     env.width)]
    /\ UNCHANGED callVars
    /\ UNCHANGED rampVars
    /\ UNCHANGED normVars
    /\ UNCHANGED <<shep, pitch, par>>
    /\ UNCHANGED moreVars

\* fade = np.sin(np.pi * phase)
ApplySine ==
    /\ env.kind = "sine"
    /\ ~env.applied
    /\ env' = [env EXCEPT !.applied = TRUE,
                          !.gain = Gain(Default("cyclic"), env.x)]
    /\ UNCHANGED callVars
    /\ UNCHANGED rampVars
    /\ UNCHANGED normVars
    /\ UNCHANGED <<shep, pitch, par>>
    /\ UNCHANGED moreVars

\* the volume of the loop-pattern generators and the decibels it is applied
\* as: pattern_with_vol = sped_pattern + volume_db
ApplyLinear ==
    /\ env.kind = "linear"
    /\ ~env.applied
    /\ LET volume == LinearFade(env.x)
       IN  env' = [env EXCEPT !.applied = TRUE, !.gain = volume,
                              !.db = VolumeDb(volume)]
    /\ UNCHANGED callVars
    /\ UNCHANGED rampVars
    /\ UNCHANGED normVars
    /\ UNCHANGED <<shep, pitch, par>>
    /\ UNCHANGED moreVars

\* the gate of the stronger generator and its product with the loudness:
\* hit[: end - start] * fade * loudness
ApplyGate ==
    /\ env.kind = "gate"
    /\ ~env.applied
    /\ LET c == [Default("strong") EXCEPT
                    !.accelerating = env.accelerating]
       IN  env' = [env EXCEPT !.applied = TRUE, !.fade = Fade(c, env.x),
                              !.gain = Gain(c, env.x)]
    /\ UNCHANGED callVars
    /\ UNCHANGED rampVars
    /\ UNCHANGED normVars
    /\ UNCHANGED <<shep, pitch, par>>
    /\ UNCHANGED moreVars

NextEnv ==
    \/ ApplyGaussian
    \/ ApplySine
    \/ ApplyLinear
    \/ ApplyGate

SpecEnv == InitEnv /\ [][NextEnv]_vars

\* ------------------------------------- the layers generated side by side
\* one turn of generate_layer's while loop on its own cursor and buffer: the
\* onset is stamped and the cursor moves on
IterateLayer(c, layer_index, st) ==
    LET x     == Position(c, layer_index, st.t)
        freq  == EventFreq(c, layer_index, x)
        hit   == make_hit(c.variant, c.sample_rate,
                          HitFreq(c.variant, layer_index))
        start == StartIndex(c, st.t)
        end   == EndIndex(start, Len(hit), Len(st.layer))
        rhs   == Stamp(c, hit, end - start, x)
    IN  [st EXCEPT !.t = st.t + Interval(freq),
                   !.layer = AddInto(st.layer, start, end, rhs)]

\* generate_layer from its first line: layer = np.zeros(samples), t = 0.0
NewLayer(c) == [t |-> 0, layer |-> Zeros(Samples(c)), returned |-> FALSE]

\* generate_layer run from a state of its loop to its return
RECURSIVE LayerLoop(_, _, _)
LayerLoop(c, layer_index, st) ==
    IF LoopCond(c, st.t)
    THEN LayerLoop(c, layer_index, IterateLayer(c, layer_index, st))
    ELSE st.layer

\* the mix of generate_risset's loop over the layers below n, one after the
\* other: for i in range(num_layers): mix += generate_layer(...)
RECURSIVE SequentialMix(_, _)
SequentialMix(c, n) ==
    IF n = 0 THEN Zeros(Samples(c))
    ELSE AddArrays(SequentialMix(c, n - 1), LayerLoop(c, n - 1, NewLayer(c)))

\* a buffer shared by the calls: every call works on the first call's state
SharedState(tasks, j) == tasks[1]

\* the cursor and buffer of the call for layer j - 1, its own locals
OwnState(tasks, j) == tasks[j]

\* mix += layer over the returned layers, in the order of the layer indices
RECURSIVE SumLayers(_, _)
SumLayers(sum, tasks) ==
    IF tasks = <<>> THEN sum
    ELSE SumLayers(AddArrays(sum, Head(tasks).layer), Tail(tasks))

\* requests of the cyclic generator over 1 s, with positive parameters
ParConfigs ==
    {c \in ValidConfigs : c.variant = "cyclic" /\ c.duration = Sec(1)}

InitPar ==
    /\ BaseIdle
    /\ env = NoEnv
    /\ shep = NoShepard
    /\ pitch = NoPitch
    /\ MoreIdle
    /\ par \in { [NoPar EXCEPT !.cfg = c,
                               !.tasks = [j \in 1..c.num_layers |->
                                             NewLayer(c)]] :
                  c \in ParConfigs }

\* one of the calls takes a turn of its while loop
ParStep ==
    /\ \E j \in 1..Len(par.tasks) :
           LET st == OwnState(par.tasks, j)
           IN  /\ ~par.tasks[j].returned
               /\ LoopCond(par.cfg, st.t)
               /\ par' = [par EXCEPT
                             !.tasks[j] = IterateLayer(par.cfg, j - 1, st)]
    /\ UNCHANGED callVars
    /\ UNCHANGED rampVars
    /\ UNCHANGED normVars
    /\ UNCHANGED <<env, shep, pitch>>
    /\ UNCHANGED moreVars

\* one of the calls leaves its loop and returns its layer
ParReturn ==
    /\ \E j \in 1..Len(par.tasks) :
           LET st == OwnState(par.tasks, j)
           IN  /\ ~par.tasks[j].returned
               /\ ~LoopCond(par.cfg, st.t)
               /\ par' = [par EXCEPT
                             !.tasks[j] = [st EXCEPT !.returned = TRUE]]
    /\ UNCHANGED callVars
    /\ UNCHANGED rampVars
    /\ UNCHANGED normVars
    /\ UNCHANGED <<env, shep, pitch>>
    /\ UNCHANGED moreVars

\* once every call has returned: mix = np.zeros(...) and mix += layer for each
ParMix ==
    /\ ~par.summed
    /\ \A j \in 1..Len(par.tasks) : par.tasks[j].returned
    /\ par' = [par EXCEPT
                  !.summed = TRUE,
                  !.mix = SumLayers(Zeros(Samples(par.cfg)), par.tasks)]
    /\ UNCHANGED callVars
    /\ UNCHANGED rampVars
    /\ UNCHANGED normVars
    /\ UNCHANGED <<env, shep, pitch>>
    /\ UNCHANGED moreVars

NextPar ==
    \/ ParStep
    \/ ParReturn
    \/ ParMix

SpecPar == InitPar /\ [][NextPar]_vars

\* ---------------------------------------------------------------------
\* The loop-pattern generators: RissetRhythmGenerator (backup.py) and
\* ClassicRissetRhythm (risset_rhythm_generator.py).  Tempos are in BPM
\* scaled by One, times in milliseconds.

\* pattern = AudioSegment.silent(duration=400)
PatternMs == 400

\* duration_ms = self.duration_seconds * 1000
DurationMs(g) == g.duration_seconds * 1000

\* every layer taken from base_tempo to twice base_tempo
LayerTemposFromBase(g, layer_index) ==
    [start_tempo |-> g.base_tempo, end_tempo |-> 2 * g.base_tempo]

\* start_tempo and end_tempo of generate_layer / generate_voice
LayerTempos(g, layer_index) ==
    IF g.direction = "accelerating"
    THEN [start_tempo |-> g.base_tempo * Pow2(layer_index),
          end_tempo   |-> g.base_tempo * Pow2(layer_index + 1)]
    ELSE [start_tempo |-> g.base_tempo * Pow2(g.num_layers - layer_index),
          end_tempo   |->
              g.base_tempo * Pow2(g.num_layers - layer_index - 1)]

\* progress = current_time / duration_ms
LoopProgress(g, current_time) == RDiv(current_time * One, DurationMs(g))

\* current_tempo = start_tempo + (end_tempo - start_tempo) * progress
CurrentTempo(start_tempo, end_tempo, progress) ==
    start_tempo + MulDiv(end_tempo - start_tempo, progress, One)

\* speed_factor = current_tempo / self.base_tempo
SpeedFactor(g, current_tempo) == FreqRatio(current_tempo, g.base_tempo)

\* len(pattern.speedup(playback_speed=speed_factor)): the library cuts the
\* pattern to about 1/speed_factor of its length; the lengths it can
\* return are the nominal one and the pattern's own length and its half
SpedLengths(speed_factor) ==
    { Max(1, (PatternMs * One) \div speed_factor),
      PatternMs \div 2, PatternMs }

\* the generators constructed: ClassicRissetRhythm has no direction and
\* always accelerates
PatternConfigs ==
    { [kind |-> k[1], base_tempo |-> b * One, num_layers |-> n,
       direction |-> k[2], duration_seconds |-> 1] :
        k \in { <<"RissetRhythmGenerator", "accelerating">>,
                <<"RissetRhythmGenerator", "decelerating">>,
                <<"ClassicRissetRhythm", "accelerating">> },
        b \in {60, 80}, n \in 1..MaxLayers }

NoTurn ==
    [progress |-> 0, current_tempo |-> 0, speed_factor |-> 0,
     volume_db |-> 0, position |-> 0, length |-> 0]

\* generate() entered: the pattern made, final silent, the loop at layer 0
InitLoop ==
    /\ BaseIdle
    /\ env = NoEnv
    /\ shep = NoShepard
    /\ pitch = NoPitch
    /\ par = NoPar
    /\ mg = NoMatch
    /\ app = NoApp
    /\ lp \in { [pc |-> "generate", self |-> g, i |-> 0, final |-> 0,
                 start_tempo |-> 0, end_tempo |-> 0, current_time |-> 0,
                 track |-> {}, turn |-> NoTurn, exported |-> FALSE] :
                g \in PatternConfigs }

\* for i in range(num_layers): generate_layer(i, pattern), up to its loop
LoopCallLayer ==
    /\ lp.pc = "generate"
    /\ lp.i < lp.self.num_layers
    /\ LET tempos == LayerTempos(lp.self, lp.i)
       IN  lp' = [lp EXCEPT !.pc = "layer",
                            !.start_tempo = tempos.start_tempo,
                            !.end_tempo = tempos.end_tempo,
                            !.track = {},
                            !.current_time = 0,
                            !.turn = NoTurn]
    /\ UNCHANGED <<callVars, rampVars, normVars, auxVars, mg, app>>

\* one turn of while current_time < duration_ms
LoopTurn ==
    /\ lp.pc = "layer"
    /\ lp.current_time < DurationMs(lp.self)
    /\ LET progress == LoopProgress(lp.self, lp.current_time)
           current_tempo ==
               CurrentTempo(lp.start_tempo, lp.end_tempo, progress)
           speed_factor == SpeedFactor(lp.self, current_tempo)
           volume_db == VolumeDb(LinearFade(progress))
       IN  \E length \in SpedLengths(speed_factor) :
               lp' = [lp EXCEPT
                        !.track = @ \cup {lp.current_time},
                        !.current_time = @ + length,
                        !.turn = [progress |-> progress,
                                  current_tempo |-> current_tempo,
                                  speed_factor |-> speed_factor,
                                  volume_db |-> volume_db,
                                  position |-> lp.current_time,
                                  length |-> length]]
    /\ UNCHANGED <<callVars, rampVars, normVars, auxVars, mg, app>>

\* return track; final = final.overlay(layer)
LoopLayerReturn ==
    /\ lp.pc = "layer"
    /\ lp.current_time >= DurationMs(lp.self)
    /\ lp' = [lp EXCEPT !.pc = "generate", !.i = @ + 1, !.final = @ + 1]
    /\ UNCHANGED <<callVars, rampVars, normVars, auxVars, mg, app>>

\* final = final.normalize(); final.export(...)
LoopExport ==
    /\ lp.pc = "generate"
    /\ lp.i >= lp.self.num_layers
    /\ lp' = [lp EXCEPT !.pc = "exported", !.exported = TRUE]
    /\ UNCHANGED <<callVars, rampVars, normVars, auxVars, mg, app>>

NextLoop ==
    \/ LoopCallLayer
    \/ LoopTurn
    \/ LoopLayerReturn
    \/ LoopExport

SpecLoop == InitLoop /\ [][NextLoop]_vars

\* ---------------------------------------------------------------------
\* The matching GUI (backup.py): the Tk main loop runs one handler at a
\* time; every Play Beep starts a worker thread, whose steps interleave with
\* the handlers and with each other.

\* sr of the GUI, followed at a low rate
MatchRate == 1

\* duration = 12
BeepSeconds == 12

\* bpm_start = 60
BeepBpmStart == 60

\* max_rate = 6.0, BPM per second at the slider's extremes
max_rate == 6

\* the beep workers followed
MaxWorkers == 2

\* slider.get() in hundredths (resolution 0.01, from -1.0 to 1.0)
Sliders == {-100, 0, 100}

\* n = int(sr * duration)
BeepLoopLen == MatchRate * BeepSeconds

\* bpm_end = bpm_start + rate * duration, rate = slider_val * max_rate
BeepBpmEnd(slider_val) ==
    BeepBpmStart + (slider_val * max_rate * BeepSeconds) \div 100

\* the ramp _run follows: bpm = np.linspace(bpm_start, bpm_end, n)
BeepRamp(bpm_end) ==
    [bpm_start |-> BeepBpmStart, bpm_end |-> bpm_end,
     sample_rate |-> MatchRate]

\* a worker as Thread(target=_run).start() leaves it: before its loop
NewWorker(bpm_end) ==
    [pc |-> "for", bpm_end |-> bpm_end, i |-> 0, phase |-> 0, beeps |-> 0,
     stopped |-> FALSE, played |-> FALSE, late |-> FALSE]

\* the GUI after root.mainloop() is entered: nothing loaded, slider at 0
InitBeep ==
    /\ BaseIdle
    /\ env = NoEnv
    /\ shep = NoShepard
    /\ pitch = NoPitch
    /\ par = NoPar
    /\ lp = NoLoop
    /\ app = NoApp
    /\ mg = [pc |-> "idle", stop_beep |-> FALSE, slider |-> 0,
             risset_audio |-> FALSE, playing |-> 0, workers |-> <<>>]

\* the slider is moved (update_label)
MoveSlider ==
    /\ mg.pc = "idle"
    /\ \E v \in Sliders \ {mg.slider} : mg' = [mg EXCEPT !.slider = v]
    /\ UNCHANGED <<callVars, rampVars, normVars, auxVars, lp, app>>

\* load_risset with a file chosen
LoadRisset ==
    /\ mg.pc = "idle"
    /\ ~mg.risset_audio
    /\ mg' = [mg EXCEPT !.risset_audio = TRUE]
    /\ UNCHANGED <<callVars, rampVars, normVars, auxVars, lp, app>>

\* play_risset: sd.play(risset_audio, risset_sr), which replaces whatever
\* plays; the stream is numbered -1
PlayRisset ==
    /\ mg.pc = "idle"
    /\ mg.risset_audio
    /\ mg' = [mg EXCEPT !.playing = -1]
    /\ UNCHANGED <<callVars, rampVars, normVars, auxVars, lp, app>>

\* play_beep: stop_beep = False, the ramp from the slider, the thread started
PlayBeep ==
    /\ mg.pc = "idle"
    /\ Len(mg.workers) < MaxWorkers
    /\ mg' = [mg EXCEPT !.stop_beep = FALSE,
                        !.workers =
                            Append(@, NewWorker(BeepBpmEnd(mg.slider)))]
    /\ UNCHANGED <<callVars, rampVars, normVars, auxVars, lp, app>>

\* stop_all, first statement: stop_beep = True
StopAllFlag ==
    /\ mg.pc = "idle"
    /\ mg' = [mg EXCEPT !.pc = "stopping", !.stop_beep = TRUE]
    /\ UNCHANGED <<callVars, rampVars, normVars, auxVars, lp, app>>

\* stop_all, second statement: sd.stop(); stop_all has run for every
\* worker started so far
StopAllStop ==
    /\ mg.pc = "stopping"
    /\ mg' = [mg EXCEPT !.pc = "idle", !.playing = 0,
                        !.workers = [w \in DOMAIN @ |->
                                        [@[w] EXCEPT !.stopped = TRUE]]]
    /\ UNCHANGED <<callVars, rampVars, normVars, auxVars, lp, app>>

\* one turn of for i in range(n) in _run: the flag read, then the phase
WorkerStep(w) ==
    /\ mg.workers[w].pc = "for"
    /\ mg.workers[w].i < BeepLoopLen
    /\ LET self == mg.workers[w]
           p    == self.phase
                     + PhaseStep(BeepRamp(self.bpm_end), BeepLoopLen, self.i)
           one  == PhaseOne(BeepRamp(self.bpm_end), BeepLoopLen)
       IN  mg' = [mg EXCEPT !.workers[w] =
                    IF mg.stop_beep THEN [self EXCEPT !.pc = "returned"]
                    ELSE IF p >= one
                    THEN [self EXCEPT !.phase = p - one, !.beeps = @ + 1,
                                      !.i = @ + 1]
                    ELSE [self EXCEPT !.phase = p, !.i = @ + 1]]
    /\ UNCHANGED <<callVars, rampVars, normVars, auxVars, lp, app>>

\* after the loop: signal /= np.max(np.abs(signal)); sd.play(signal, sr)
WorkerPlay(w) ==
    /\ mg.workers[w].pc = "for"
    /\ mg.workers[w].i >= BeepLoopLen
    /\ mg' = [mg EXCEPT !.playing = w,
                        !.workers[w] =
                            [@ EXCEPT !.pc = "wait", !.played = TRUE,
                                      !.late = mg.workers[w].stopped]]
    /\ UNCHANGED <<callVars, rampVars, normVars, auxVars, lp, app>>

\* the stream plays to its end
PlaybackEnds ==
    /\ mg.pc \in {"idle", "stopping"}
    /\ mg.playing # 0
    /\ mg' = [mg EXCEPT !.playing = 0]
    /\ UNCHANGED <<callVars, rampVars, normVars, auxVars, lp, app>>

\* sd.wait() returns: the worker's stream plays no more
WorkerExit(w) ==
    /\ mg.workers[w].pc = "wait"
    /\ mg.playing # w
    /\ mg' = [mg EXCEPT !.workers[w] = [@ EXCEPT !.pc = "finished"]]
    /\ UNCHANGED <<callVars, rampVars, normVars, auxVars, lp, app>>

WorkerSteps == \E w \in 1..MaxWorkers : w <= Len(mg.workers) /\ WorkerStep(w)

WorkerPlays == \E w \in 1..MaxWorkers : w <= Len(mg.workers) /\ WorkerPlay(w)

WorkerExits == \E w \in 1..MaxWorkers : w <= Len(mg.workers) /\ WorkerExit(w)

NextBeep ==
    \/ MoveSlider
    \/ LoadRisset
    \/ PlayRisset
    \/ PlayBeep
    \/ StopAllFlag
    \/ StopAllStop
    \/ WorkerSteps
    \/ WorkerPlays
    \/ PlaybackEnds
    \/ WorkerExits

SpecBeep == InitBeep /\ [][NextBeep]_vars

\* ---------------------------------------------------------------------
\* AudioRatingApp (Audio Rating.py): the handlers of the Tk main loop and
\* the callbacks it schedules.  The items of a list are numbered from 1 and
\* current_playing = 0 is None.

\* the folders the user can choose, as the audio files os.listdir finds
Folders == { <<"a.wav", "b.mp3", "c.m4a">>, <<"d.wav">> }

\* the files pygame.mixer.music.load accepts
Playable == {"a.wav", "b.mp3", "d.wav"}

\* the items of the longest list
MaxFiles == 3

\* check_audio_end callbacks pending at a time
MaxPending == 2

\* the ratings a slider is moved to, in tenths
Ratings == {0, 50}

\* random.shuffle(files): the orders of a list
Shuffles(files) ==
    { [k \in 1..Len(files) |-> files[p[k]]] :
        p \in { q \in [1..Len(files) -> 1..Len(files)] :
                  \A a, b \in 1..Len(files) : a # b => q[a] # q[b] } }

\* self.audio_files = [[file, 0.0] for file in files]
Unrated(files) == [k \in 1..Len(files) |-> [file |-> files[k], rating |-> 0]]

\* render_audio_list: one item per file, each with its play button showing
\* play and its label showing the file's rating
RenderAudioList(audio_files) ==
    [k \in 1..Len(audio_files) |->
        [play_btn |-> "play", value_label |-> audio_files[k].rating]]

\* no callback scheduled
NoneAfter == [k \in 1..MaxFiles |-> 0]

Pending(after) == SumRange([k \in 1..MaxFiles |-> after[k]], 1, MaxFiles)

\* __init__ and the main loop entered
InitApp ==
    /\ BaseIdle
    /\ env = NoEnv
    /\ shep = NoShepard
    /\ pitch = NoPitch
    /\ par = NoPar
    /\ lp = NoLoop
    /\ mg = NoMatch
    /\ app = [pc |-> "mainloop", audio_files |-> <<>>,
              audio_widgets |-> <<>>, current_playing |-> 0,
              busy |-> FALSE, after |-> NoneAfter, raised |-> "none",
              reloaded |-> FALSE, quiet |-> FALSE]

\* load_folder with a folder chosen that holds audio files
LoadFolder ==
    /\ app.pc = "mainloop"
    /\ ~app.quiet
    /\ \E folder \in Folders :
       \E files \in Shuffles(folder) :
           app' = [app EXCEPT
                     !.audio_files = Unrated(files),
                     !.audio_widgets = RenderAudioList(Unrated(files)),
                     !.reloaded = @ \/ app.current_playing # 0,
                     !.raised = "none"]
    /\ UNCHANGED <<callVars, rampVars, normVars, auxVars, lp, mg>>

\* toggle_play(index), up to the statement that raises if one does: the
\* state the except clause finds
TogglePlay(self, index) ==
    LET switch  == self.current_playing # 0 /\ self.current_playing # index
        stale   == switch /\ self.current_playing > Len(self.audio_widgets)
        stopped ==
            IF ~switch THEN self
            ELSE IF stale THEN [self EXCEPT !.busy = FALSE,
                                            !.raised = "IndexError"]
            ELSE [self EXCEPT
                    !.busy = FALSE,
                    !.audio_widgets[self.current_playing].play_btn = "play"]
    IN  IF stale THEN stopped
        ELSE IF stopped.current_playing = index
        THEN [stopped EXCEPT !.busy = FALSE,
                             !.audio_widgets[index].play_btn = "play",
                             !.current_playing = 0,
                             !.raised = "none"]
        ELSE IF self.audio_files[index].file \notin Playable
        THEN [stopped EXCEPT !.raised = "pygame.error"]
        ELSE [stopped EXCEPT !.busy = TRUE,
                             !.audio_widgets[index].play_btn = "pause",
                             !.current_playing = index,
                             !.after[index] = @ + 1,
                             !.raised = "none"]

\* a play button is pressed
PressPlay ==
    /\ app.pc = "mainloop"
    /\ ~app.quiet
    /\ \E index \in 1..Len(app.audio_widgets) :
           /\ Pending(TogglePlay(app, index).after) <= MaxPending
           /\ app' = TogglePlay(app, index)
    /\ UNCHANGED <<callVars, rampVars, normVars, auxVars, lp, mg>>

\* check_audio_end(index), without the callback's own entry in after
CheckAudioEnd(self, index) ==
    IF ~self.busy /\ self.current_playing = index
    THEN IF index > Len(self.audio_widgets)
         THEN [self EXCEPT !.raised = "IndexError"]
         ELSE [self EXCEPT !.audio_widgets[index].play_btn = "play",
                           !.current_playing = 0]
    ELSE IF self.current_playing = index
    THEN [self EXCEPT !.after[index] = @ + 1]
    ELSE self

\* a callback scheduled with root.after(100, ...) runs
Poll ==
    /\ app.pc = "mainloop"
    /\ \E index \in 1..MaxFiles :
           /\ app.after[index] > 0
           /\ app' = CheckAudioEnd([app EXCEPT !.after[index] = @ - 1],
                                   index)
    /\ UNCHANGED <<callVars, rampVars, normVars, auxVars, lp, mg>>

\* the music plays to its end: get_busy() turns False
MusicEnds ==
    /\ app.pc = "mainloop"
    /\ app.busy
    /\ app' = [app EXCEPT !.busy = FALSE]
    /\ UNCHANGED <<callVars, rampVars, normVars, auxVars, lp, mg>>

\* update_rating(index, value): a slider is moved
UpdateRating ==
    /\ app.pc = "mainloop"
    /\ ~app.quiet
    /\ \E index \in 1..Len(app.audio_widgets) :
       \E value \in Ratings \ {app.audio_files[index].rating} :
           app' = [app EXCEPT
                     !.audio_files[index].rating = value,
                     !.audio_widgets[index].value_label = value]
    /\ UNCHANGED <<callVars, rampVars, normVars, auxVars, lp, mg>>

\* clear_ratings, answered yes
ClearRatings ==
    /\ app.pc = "mainloop"
    /\ ~app.quiet
    /\ Len(app.audio_files) > 0
    /\ LET cleared == [k \in 1..Len(app.audio_files) |->
                          [app.audio_files[k] EXCEPT !.rating = 0]]
       IN  app' = [app EXCEPT
                     !.busy = IF app.current_playing # 0 THEN FALSE ELSE @,
                     !.current_playing = 0,
                     !.audio_files = cleared,
                     !.audio_widgets = RenderAudioList(cleared)]
    /\ UNCHANGED <<callVars, rampVars, normVars, auxVars, lp, mg>>

\* the user leaves the window alone from now on
UserLeaves ==
    /\ app.pc = "mainloop"
    /\ ~app.quiet
    /\ app' = [app EXCEPT !.quiet = TRUE]
    /\ UNCHANGED <<callVars, rampVars, normVars, auxVars, lp, mg>>

NextApp ==
    \/ LoadFolder
    \/ PressPlay
    \/ Poll
    \/ MusicEnds
    \/ UpdateRating
    \/ ClearRatings
    \/ UserLeaves

SpecApp == InitApp /\ [][NextApp]_vars

\* the main loop runs every callback that is due, and every file ends
SpecAppLive == SpecApp /\ WF_vars(Poll) /\ WF_vars(MusicEnds)

\* ================================================================ claims
\* the request has a positive base rate, a positive duration and, for the
\* cyclic law, a positive cycle length
PositiveLaw(c) ==
    /\ c.base_tempo > 0
    /\ c.duration > 0
    /\ c.variant = "cyclic" => c.cycle_duration > 0

\* the layer's event loop has ended (generate_layer is about to return)
LoopEnded == pc = "while" /\ ~LoopCond(cfg, t)

\* the largest rate a law reaches: 2 base_freq (cyclic), 2 * 2 base_freq
\* (exponential), 2 * 2**EXP_RANGE base_freq (stronger)
MaxRate(c) ==
    BaseFreq(c.base_tempo)
        * (IF c.variant = "cyclic" THEN 2
           ELSE IF c.variant = "exp" THEN 4 ELSE 2 * Pow2(EXP_RANGE))

\* duration * MaxRate + 2: no more onsets fit before the duration
OnsetBound(c) == MulDiv(c.duration, MaxRate(c), One) \div One + 2

\* C1: with a positive base rate, duration and cycle length, the event loop
\* of every generator, direction and layer stamps finitely many onsets (at
\* most duration * max rate + 2, and never as many as the model follows),
\* runs its body only while t < duration, moves the cursor forward at every
\* onset, and is left only with t >= duration, never by an exception.
C1_EventLoopTerminates ==
    PositiveLaw(cfg) =>
        /\ pc = "while" =>
            /\ Len(onsets) <= OnsetBound(cfg)
            /\ LoopCond(cfg, t) => Len(onsets) < MaxOnsets
            /\ \A k \in 1..Len(onsets) : onsets[k].t < cfg.duration
            /\ Len(onsets) > 0 => t > onsets[Len(onsets)].t
        /\ (pc \in {"for", "write", "done"} /\ i > 0) => t >= cfg.duration
        /\ pc = "raised" => i = cfg.num_layers

\* C1 witness: the loop of the last of three decelerating layers of the
\* stronger exponential generator has ended after several onsets
C1_Witness ==
    /\ PositiveLaw(cfg)
    /\ cfg.variant = "strong"
    /\ ~cfg.accelerating
    /\ i = 2
    /\ LoopEnded
    /\ Len(onsets) >= 3

\* C2: in every event-layer generator the onset times start at 0, are
\* strictly increasing, and lie in [0, duration).
C2_OnsetsIncreasing ==
    pc \in {"while", "raised"} =>
        /\ Len(onsets) > 0 => onsets[1].t = 0
        /\ \A k \in 1..Len(onsets) :
               /\ 0 <= onsets[k].t
               /\ onsets[k].t < cfg.duration
               /\ k > 1 => onsets[k - 1].t < onsets[k].t

\* the same for the requests with a positive law only
OnsetsIncreasingPositiveLaw == PositiveLaw(cfg) => C2_OnsetsIncreasing

\* C3: when the rate an iteration computes is not positive, the iteration
\* ends in an exception and stamps nothing.
C3_FailFast ==
    (last.computed /\ last.freq <= 0) => (pc = "raised" /\ ~last.stamped)

\* the request has a parameter the engine is to reject
InvalidRequest(c) ==
    \/ c.duration <= 0
    \/ c.base_tempo <= 0
    \/ c.sample_rate <= 0
    \/ c.variant = "cyclic" /\ c.cycle_duration <= 0

\* C4: an invalid request is rejected with an error before the mix or any
\* layer buffer is allocated, and nothing is written.
C4_RejectedBeforeAllocation ==
    InvalidRequest(cfg) =>
        /\ ~mix_alloc
        /\ layers = 0
        /\ ~written
        /\ pc \in {"call", "raised"}

\* C5: a request of duration 0 (its other parameters positive) is valid:
\* every layer comes back empty with no onset stamped, and nothing raises.
C5_ZeroDurationValid ==
    (cfg.duration = 0 /\ cfg.base_tempo > 0 /\ cfg.sample_rate > 0
        /\ cfg.cycle_duration > 0 /\ cfg.num_layers > 0) =>
        /\ LoopEnded => (Len(layer) = 0 /\ Len(onsets) = 0)
        /\ raised = "none"

\* the iteration just taken stamped an onset
Stamped == pc = "while" /\ Len(onsets') = Len(onsets) + 1

\* the turn of generate_ramp's loop just taken stamped a beep
BeepStamped == pc = "ramp_for" /\ Len(beeps') = Len(beeps) + 1

\* C6: when a hit or a beep is stamped, with start and end the indices the
\* code computed, the samples written are those of the slice
\* buffer[start:end], all at indices within [0, len(buffer)); they receive,
\* in order, the first samples of the enveloped hit (of the beep), as many as
\* the slice is long; every other sample, those before the slice included,
\* keeps its value. When start >= 0, the slice begins at start and its
\* length is the waveform's length cut to what is left of the buffer
\* (nothing when start = len(buffer)).
C6_StampWithinBuffer ==
    [][/\ Stamped =>
            LET o   == onsets'[Len(onsets')]
                hit == make_hit(cfg.variant, cfg.sample_rate,
                                HitFreq(cfg.variant, i))
                w   == Stamp(cfg, hit, Len(hit), o.x)
                s   == SliceBound(o.start, Len(layer))
                n   == SliceLen(o.start, o.end, Len(layer))
            IN  /\ 0 <= s
                /\ s + n <= Len(layer)
                /\ n <= Len(hit)
                /\ o.start >= 0 =>
                       /\ s = o.start
                       /\ o.end = s + n
                       /\ n = Min(Len(hit), Len(layer) - o.start)
                /\ Len(layer') = Len(layer)
                /\ \A k \in 1..Len(layer) :
                       layer'[k] = IF k > s /\ k <= s + n
                                   THEN layer[k] + w[k - s]
                                   ELSE layer[k]
       /\ BeepStamped =>
            LET b    == beeps'[Len(beeps')]
                beep == make_beep(ramp)
            IN  /\ 0 <= b.start
                /\ b.start <= b.end
                /\ b.end <= Len(signal)
                /\ b.end - b.start = Min(Len(beep), Len(signal) - b.start)
                /\ Len(signal') = Len(signal)
                /\ \A k \in 1..Len(signal) :
                       signal'[k] = IF k > b.start /\ k <= b.end
                                    THEN signal[k] + beep[k - b.start]
                                    ELSE signal[k]
      ]_vars

\* C6 witness: a layer holds an onset whose hit was cut to one sample with a
\* non-zero gain, the sample written being the last of the buffer
C6_Witness ==
    /\ PositiveLaw(cfg)
    /\ pc = "while"
    /\ \E k \in 1..Len(onsets) :
           /\ onsets[k].end - onsets[k].start = 1
           /\ onsets[k].hitlen > 1
           /\ onsets[k].gain > 0
           /\ onsets[k].end = Len(layer)
           /\ layer[Len(layer)] # 0

\* the onsets with a <= t < b, as <<time past a, gain>> pairs
RECURSIVE Window(_, _, _)
Window(os, a, b) ==
    IF os = <<>> THEN <<>>
    ELSE LET o == Head(os)
         IN  IF a <= o.t /\ o.t < b
             THEN <<[dt |-> o.t - a, gain |-> o.gain]>> \o Window(Tail(os), a, b)
             ELSE Window(Tail(os), a, b)

\* the tolerance the periodicity is asked within: 1e-2 of a gain
GainTol == One \div 100

\* C7: a finished layer of the cyclic law of at least two cycles has as many
\* onsets in [0, C) as in [C, 2C), with the same gains in order (within
\* GainTol).
C7_CyclePeriodic ==
    (cfg.variant = "cyclic" /\ PositiveLaw(cfg) /\ LoopEnded
        /\ cfg.duration >= 2 * cfg.cycle_duration) =>
        LET a == Window(onsets, 0, cfg.cycle_duration)
            b == Window(onsets, cfg.cycle_duration, 2 * cfg.cycle_duration)
        IN  /\ Len(a) = Len(b)
            /\ \A k \in 1..Len(a) : Abs(a[k].gain - b[k].gain) <= GainTol

\* a non-empty signal of zeros
Silent(b) == Len(b) > 0 /\ \A k \in 1..Len(b) : b[k] = 0

\* the peak a generator's normalization step aims at: 1.0, or 0.8 in the
\* Shepard generator
TargetPeak(kind) ==
    IF kind = "shepard" THEN MulDiv(AmpOne, ShepardPeakTenths, 10) ELSE AmpOne

\* the normalization step of a generator has run and returned samples
NormDone(kind) == nkind = kind /\ nout.status = "ok"

\* C8: after the normalization step of an event generator or of the Shepard
\* generator, for every input mix, every output sample is a number of
\* magnitude at most the target peak (1.0, or 0.8 for Shepard).
C8_NeverClipped ==
    (NormDone("event") \/ NormDone("shepard")) =>
        /\ ~nout.nan
        /\ \A k \in 1..Len(nout.buf) : Abs(nout.buf[k]) <= TargetPeak(nkind)

\* 1e-6, the tolerance of the peak
PeakTol == AmpOne \div (1000 * 1000)

\* C9 as stated: for every mix that is not silent, the output peak of the
\* event and Shepard normalization steps is within 1e-6 of the target peak.
C9_PeakIsTarget ==
    ((NormDone("event") \/ NormDone("shepard")) /\ ~Silent(nin)) =>
        /\ ~nout.nan
        /\ Abs(Peak(nout.buf) - TargetPeak(nkind)) <= PeakTol

\* 1e-3: from this input peak on the guarded division stays within 1e-6 of
\* 1.0, as p / (p + 1e-9) >= 1 - 1e-6 when p >= (1e6 - 1) * 1e-9
PeakFloor == AmpOne \div 1000

\* C9 amended: the Shepard step, which divides by the bare peak, gives a
\* peak within 1e-6 of 0.8 for every mix that is not silent; the event step,
\* which divides by peak + 1e-9, gives a peak within 1e-6 of 1.0 when the
\* input peak is at least 1e-3, and a peak more than 1e-6 below 1.0 (but
\* above 0) when the input peak is below 0.000999999.
C9_PeakWithinGuard ==
    /\ (NormDone("shepard") /\ ~Silent(nin)) =>
           /\ ~nout.nan
           /\ Abs(Peak(nout.buf) - TargetPeak("shepard")) <= PeakTol
    /\ (NormDone("event") /\ ~Silent(nin)) =>
           /\ ~nout.nan
           /\ Peak(nin) >= PeakFloor =>
                  Abs(Peak(nout.buf) - AmpOne) <= PeakTol
           /\ Peak(nin) < PeakFloor - Eps =>
                  /\ Peak(nout.buf) < AmpOne - PeakTol
                  /\ Peak(nout.buf) > 0

\* C9 witness: the event step has normalized a mix whose peak is 1e-3 and
\* whose other sample is far smaller: the output peak is 0.999999
C9_Witness ==
    /\ NormDone("event")
    /\ Len(nin) = 2
    /\ Peak(nin) = PeakFloor
    /\ Abs(nin[1]) = 1
    /\ Peak(nout.buf) = AmpOne - PeakTol

\* C10: every normalization step, handed a silent signal, returns zeros:
\* no exception, no nan.
C10_SilenceHandled ==
    (nout.status # "none" /\ Silent(nin)) =>
        /\ nout.status = "ok"
        /\ ~nout.nan
        /\ Silent(nout.buf)

\* sample k of the sum of the buffers of rs
RECURSIVE SumAt(_, _)
SumAt(rs, k) ==
    IF rs = <<>> THEN 0 ELSE Head(rs).buf[k] + SumAt(Tail(rs), k)

\* generate_risset is running or has ended
InRisset == pc \in {"for", "while", "write", "done", "raised"}

\* C11: in generate_risset, generate_layer has been called once for each
\* layer index 0..i-1 in order, every index below num_layers; the mix is,
\* sample by sample, the sum of the layers returned so far, and when the mix
\* is normalized all num_layers layers are in it.
C11_MixIsSumOfLayers ==
    InRisset =>
        /\ Len(returned) = i
        /\ \A j \in 1..Len(returned) :
               /\ returned[j].index = j - 1
               /\ returned[j].index < cfg.num_layers
               /\ Len(returned[j].buf) = Len(mix)
        /\ pc = "while" => i < cfg.num_layers
        /\ \A k \in 1..Len(mix) : mix[k] = SumAt(returned, k)
        /\ pc \in {"write", "done"} => i = Max(cfg.num_layers, 0)

\* C11 witness: a mix of three layers is about to be written, with a sample
\* that two of the layers both contribute to
C11_Witness ==
    /\ pc = "write"
    /\ cfg.num_layers = 3
    /\ \E k \in 1..Len(mix) :
           /\ returned[2].buf[k] # 0
           /\ returned[3].buf[k] # 0
           /\ mix[k] = returned[1].buf[k] + returned[2].buf[k]
                           + returned[3].buf[k]

\* the request is for one of the two exponential generators
ExpLaw(c) == c.variant \in {"exp", "strong"}

\* the time from onset k of the layer to the next one (to the cursor, for the
\* last onset so far)
Gap(k) ==
    (IF k < Len(onsets) THEN onsets[k + 1].t ELSE t) - onsets[k].t

\* C12: under the exponential laws the rate used at each onset after the
\* first is strictly greater than at the onset before it when accelerating
\* and strictly smaller when decelerating, the rates of a layer all have one
\* sign (so the exact intervals 1 / freq move strictly the other way), and
\* the intervals between onsets (rounded to 1e-4 s) strictly shrink when
\* accelerating and strictly grow when decelerating.
C12_RateMonotone ==
    ExpLaw(cfg) =>
        \A k \in 2..Len(onsets) :
            /\ SignOf(onsets[k].freq, onsets[k - 1].freq) = 1
            /\ IF cfg.accelerating
               THEN /\ onsets[k].freq > onsets[k - 1].freq
                    /\ Gap(k) < Gap(k - 1)
               ELSE /\ onsets[k].freq < onsets[k - 1].freq
                    /\ Gap(k) > Gap(k - 1)

\* C12 witness: the last layer of the 20 s, 80 bpm accelerating call of the
\* exponential generator has stamped all its onsets
C12_Witness ==
    /\ cfg.variant = "exp"
    /\ cfg.duration = Sec(20)
    /\ cfg.base_tempo = 80
    /\ cfg.accelerating
    /\ i = 2
    /\ LoopEnded
    /\ Len(onsets) > 50

\* the octaves the rate of the generator sweeps over the duration
Octaves(c) == IF c.variant = "strong" THEN EXP_RANGE ELSE 1

\* the integral of freq(t) over [0, duration] for a layer, in 1/One onsets:
\*   base_freq * freq_offset * duration * (2**R - 1) / (R ln 2) accelerating
\*   base_freq * freq_offset * duration * (1 - 2**-R) / (R ln 2) decelerating
\* with ln 2 = 0.6931
RateIntegral(c, layer_index) ==
    LET R     == Octaves(c)
        start == MulDiv(BaseFreq(c.base_tempo),
                        FreqOffset(layer_index, c.num_layers), One)
        flat  == MulDiv(MulDiv(start, c.duration, One), One, R * 6931)
    IN  IF c.accelerating THEN flat * (Pow2(R) - 1)
        ELSE MulDiv(flat, Pow2(R) - 1, Pow2(R))

\* C13: when the event loop of a layer of an exponential generator ends, for
\* a request with positive tempo and duration, the number of onsets stamped
\* is within one onset of the integral of the rate over [0, duration].
C13_CountMatchesIntegral ==
    (ExpLaw(cfg) /\ PositiveLaw(cfg) /\ LoopEnded) =>
        Abs(Len(onsets) * One - RateIntegral(cfg, i)) <= One

\* C14: for every position in [0, 1], the gain of the Gaussian envelope, of
\* the sine fade, of the linear fade and of the gate, and the product of the
\* gate with the loudness, lie in [0, 1].
C14_GainsInUnitInterval ==
    env.applied =>
        /\ 0 <= env.gain
        /\ env.gain <= One
        /\ 0 <= env.fade
        /\ env.fade <= One

\* C14 witness: the gate of the stronger generator has been applied with the
\* loudness at a position where both are positive
C14_Witness ==
    /\ env.kind = "gate"
    /\ env.applied
    /\ env.x = One \div 2
    /\ env.gain > 0
    /\ env.gain < env.fade

\* the Gaussian envelope as the Shepard layer calls it has been applied
ShepardGaussian ==
    /\ env.kind = "gaussian"
    /\ env.applied
    /\ env.center = One \div 2
    /\ env.width = 3 * (One \div 10)

SineApplied == env.kind = "sine" /\ env.applied

AtEdge == env.x \in {0, One}

\* C15 as stated: the Gaussian envelope (center 0.5, width 0.3) and the sine
\* envelope are 0 at x = 0 and x = 1 and reach their maximum 1 at x = 0.5.
C15_ZeroAtEdges ==
    (ShepardGaussian \/ SineApplied) =>
        /\ AtEdge => env.gain = 0
        /\ env.x = One \div 2 => env.gain = One
        /\ env.gain <= One

\* C15 amended: the sine envelope is 0 at x = 0 and x = 1; the Gaussian
\* envelope (center 0.5, width 0.3) is exp(-(0.5 ** 2) / (2 * 0.3 ** 2)) =
\* exp(-25 / 18) = 0.2494 there (within
\* 2e-4), its minimum over [0, 1]; both are 1 at x = 0.5 and below 1 at
\* every x at least 0.01 away from 0.5.
C15_EdgesAndMaximum ==
    /\ SineApplied =>
        /\ AtEdge => env.gain = 0
        /\ env.x = One \div 2 => env.gain = One
        /\ Abs(env.x - One \div 2) >= One \div 100 => env.gain < One
    /\ ShepardGaussian =>
        /\ AtEdge => Abs(env.gain - 2494) <= 2
        /\ env.gain >= 2494 - 2
        /\ env.x = One \div 2 => env.gain = One
        /\ Abs(env.x - One \div 2) >= One \div 100 => env.gain < One

\* C15 witness: the Gaussian envelope of the Shepard layer has been applied
\* at the edge x = 0 and is well above 0 there
C15_Witness ==
    /\ ShepardGaussian
    /\ env.x = 0
    /\ env.gain > One \div 5

\* 20 log10 of the volume, within 0.01 dB, from the decibel table
\* (0.5: -6.0206, 0.25: -12.0412, 0.1: -20, 0.0004: -67.9588)
DecibelsAsTabled ==
    /\ env.gain = One \div 2 => Abs(env.db + 60206) <= 100
    /\ env.gain = One \div 4 => Abs(env.db + 120412) <= 100
    /\ env.gain = One \div 10 => Abs(env.db + 200000) <= 100
    /\ env.gain = 4 => Abs(env.db + 679588) <= 100

\* C16: the linear fade maps progress p to p / 0.25 below 0.25, to 1 from
\* 0.25 to 0.75 and to (1 - p) / 0.25 above 0.75; next to 0.25 and to 0.75
\* its values differ from 1 by no more than 4 times the distance (it is
\* continuous there); a volume of 0 is applied as -100 dB, and a positive
\* volume as 20 log10 of it, which is above -100 dB and at most 0 dB.
C16_LinearFade ==
    (env.kind = "linear" /\ env.applied) =>
        /\ 4 * env.x < One => env.gain = 4 * env.x
        /\ (One <= 4 * env.x /\ 4 * env.x <= 3 * One) => env.gain = One
        /\ 4 * env.x > 3 * One => env.gain = 4 * (One - env.x)
        /\ \A d \in {-1, 1} :
               /\ Abs(LinearFade(One \div 4 + d) - LinearFade(One \div 4)) <= 4
               /\ Abs(LinearFade(3 * (One \div 4) + d)
                        - LinearFade(3 * (One \div 4))) <= 4
        /\ Abs(env.x - One \div 4) <= 1 => One - env.gain <= 4
        /\ Abs(env.x - 3 * (One \div 4)) <= 1 => One - env.gain <= 4
        /\ env.gain = 0 <=> env.x \in {0, One}
        /\ env.gain = 0 => env.db = -100 * One
        /\ env.gain > 0 =>
            /\ env.db > -100 * One
            /\ env.db <= 0
            /\ env.gain = One <=> env.db = 0
            /\ DecibelsAsTabled

\* C16 witness: the fade has been applied at progress 0, where the volume is
\* 0 and the decibels are -100
C16_Witness ==
    /\ env.kind = "linear"
    /\ env.applied
    /\ env.x = 0
    /\ env.gain = 0
    /\ env.db = -100 * One

\* generate_shepard_layer has returned the layer of octave shep.octave - 1
ShepardLayerDone == pc = "sh_for" /\ shep.octave > 0

\* +-progress * rise_rate at sample k of the layer, progress = (k - 1) / N
SweepExponent(k) ==
    LET e == MulDiv(RDiv((k - 1) * One, Len(shep.frequency)),
                    shep.self.rise_rate, One)
    IN  IF shep.self.direction = "up" THEN e ELSE -e

\* log2(f[k] / baseFreq) of the layer, in 1/One octaves
LogFrequency(k) ==
    Log2(FreqRatio(shep.frequency[k], shep.self.base_frequency))

\* the tolerance on a logarithm of a frequency: 5e-4 octaves
LogTol == One \div 2000

\* C17 as stated: in the Shepard layer of index k of n, log2(f[i] / baseFreq)
\* = k / n +- progress[i] * range at every sample.
C17_StartsAtOctaveFraction ==
    ShepardLayerDone =>
        \A k \in 1..Len(shep.frequency) :
            Abs(LogFrequency(k)
                  - (RDiv((shep.octave - 1) * One, shep.self.num_octaves)
                       + SweepExponent(k))) <= LogTol

\* C17 amended: the Shepard layer of index k starts at baseFreq * 2**k, a
\* whole octave per layer, and log2(f[i] / baseFreq) = k +- progress[i] *
\* rise_rate at every sample, the sign given by the direction.
C17_StartsAtOctave ==
    ShepardLayerDone =>
        /\ Len(shep.frequency) = Len(shep.output)
        /\ Len(shep.frequency) > 0 =>
               shep.frequency[1]
                   = shep.self.base_frequency * Pow2(shep.octave - 1)
        /\ \A k \in 1..Len(shep.frequency) :
               Abs(LogFrequency(k)
                     - ((shep.octave - 1) * One + SweepExponent(k)))
                   <= LogTol

\* C17 witness: the layer of index 1 of three has been generated for a
\* rising tone, and starts one octave above the base frequency
C17_Witness ==
    /\ ShepardLayerDone
    /\ shep.octave = 2
    /\ shep.self.num_octaves = 3
    /\ shep.self.direction = "up"
    /\ shep.self.rise_rate = One
    /\ shep.frequency[1] = 2 * shep.self.base_frequency
    /\ shep.frequency[Len(shep.frequency)] > 3 * shep.self.base_frequency

\* c is the running sum of f: c[0] = f[0] and c[k] = c[k - 1] + f[k]
RunningSum(f, c) ==
    /\ Len(c) = Len(f)
    /\ \A k \in 1..Len(f) : c[k] = (IF k = 1 THEN 0 ELSE c[k - 1]) + f[k]

\* every sample of w has the sign of the sine of the phase 2 pi c[k] /
\* sample_rate, or is 0
SignOfSine(w, c, sample_rate) ==
    /\ Len(w) = Len(c)
    /\ \A k \in 1..Len(w) :
           LET sine == SinTurn(Turns(c[k], sample_rate) % One)
           IN  /\ w[k] > 0 => sine > 0
               /\ w[k] < 0 => sine < 0

\* the frequency stays at its first value
Steady(f) == \A k \in 1..Len(f) : f[k] = f[1]

\* C18: in the Shepard layer and in the pitch ramp the phase times
\* sampleRate / (2 pi) is the running sum of the frequency samples, so it
\* grows by f[i + 1] from sample i to the next and by the same step at every
\* sample of a steady frequency, and the samples are the sines of that phase
\* (they have its sine's sign).
C18_PhaseIsRunningSum ==
    /\ pc \in {"sh_for", "sh_write", "sh_done"} =>
        /\ RunningSum(shep.frequency, shep.cum)
        /\ SignOfSine(shep.layer, shep.cum, shep.self.sample_rate)
        /\ Steady(shep.frequency) =>
               \A k \in 1..Len(shep.cum) :
                   shep.cum[k] = k * shep.frequency[1]
    /\ pc \in {"pitch_for", "pitch_write", "pitch_done"} =>
        /\ RunningSum(pitch.freqs, pitch.cum)
        /\ SignOfSine(pitch.signal, pitch.cum, PitchRate)

\* C18 witness: a Shepard layer of a rising tone has been generated whose
\* last phase is not the last frequency times the elapsed samples
C18_Witness ==
    /\ ShepardLayerDone
    /\ shep.self.direction = "up"
    /\ shep.self.rise_rate = 2 * One
    /\ Len(shep.cum) > 30
    /\ shep.cum[Len(shep.cum)]
           < shep.frequency[Len(shep.cum)] * (Len(shep.cum) - 1)
    /\ shep.layer[Len(shep.cum)] # 0

\* what the beeps stamped so far add up to at sample k, each with gain 1
RECURSIVE BeepSum(_, _, _)
BeepSum(bs, beep, k) ==
    IF bs = <<>> THEN 0
    ELSE (IF Head(bs).start < k /\ k <= Head(bs).end
          THEN beep[k - Head(bs).start] ELSE 0)
            + BeepSum(Tail(bs), beep, k)

\* C19: in generate_ramp the signal before normalization is, at every
\* sample, the sum of the beeps stamped so far, each the one beep waveform
\* with gain 1 wherever it starts; in the pitch script every sample of every
\* ramp is the sine of the phase times the same amplitude 0.8.
C19_ConstantEnvelope ==
    /\ pc \in {"ramp_for", "ramp_write", "ramp_done", "ramp_raised"} =>
        LET beep == make_beep(ramp)
        IN  \A k \in 1..Len(signal) : signal[k] = BeepSum(beeps, beep, k)
    /\ pc \in {"pitch_write", "pitch_done"} =>
        /\ Len(pitch.signal) = Len(pitch.cum)
        /\ \A k \in 1..Len(pitch.signal) :
               LET sine == SinTurn(Turns(pitch.cum[k], PitchRate) % One)
               IN  pitch.signal[k]
                     = MulDiv(sine, 8 * (One \div 10), One) * AmpPerOne

\* C19 witness: a tempo ramp has ended with three beeps or more stamped at
\* different phases of the ramp, the last of them not silent
C19_Witness ==
    /\ pc = "ramp_write"
    /\ Len(beeps) >= 3
    /\ \E k \in 1..Len(signal) :
           /\ k > beeps[Len(beeps)].start
           /\ signal[k] # 0

SequentialMixAgrees ==
    (pc = "write" /\ PositiveLaw(cfg) /\ cfg.duration <= Sec(4)) =>
        mix = SequentialMix(cfg, cfg.num_layers)

\* C21: the buffer of the layer being generated, and of every layer
\* returned, is exactly as long as the mix it is added to, in generate_risset
\* for every duration and sample rate and in the Shepard generator; the
\* addition never raises for unequal lengths.
C21_LayerLengthIsMixLength ==
    /\ InRisset =>
        /\ pc = "while" => Len(layer) = Len(mix)
        /\ \A j \in 1..Len(returned) : Len(returned[j].buf) = Len(mix)
        /\ pc = "raised" => (i = 0 \/ Len(layer) = Len(mix))
    /\ (pc \in {"sh_for", "sh_write", "sh_done"} /\ shep.octave > 0) =>
        /\ Len(shep.layer) = Len(shep.output)
        /\ Len(shep.frequency) = Len(shep.output)

\* C21 witness: a layer is being generated for a duration that is not a
\* whole number of samples (3.2089 s at 100 Hz), and has the 320 samples of
\* the mix
C21_Witness ==
    /\ pc = "while"
    /\ cfg.duration = 32089
    /\ Len(onsets) > 0
    /\ Len(layer) = 320
    /\ Len(mix) = 320

\* ---------------------------------------------------------------------
\* C22: in RissetRhythmGenerator.generate_layer with direction
\* 'decelerating', layer 0 runs from 2*base_tempo down to base_tempo and
\* layer 1 from base_tempo down to base_tempo/2, for every num_layers.
InDeceleratingLayer ==
    /\ lp.pc = "layer"
    /\ lp.self.kind = "RissetRhythmGenerator"
    /\ lp.self.direction = "decelerating"

C22_DeceleratingFromTwiceBase ==
    InDeceleratingLayer =>
        /\ lp.i = 0 => /\ lp.start_tempo = 2 * lp.self.base_tempo
                       /\ lp.end_tempo = lp.self.base_tempo
        /\ lp.i = 1 => /\ lp.start_tempo = lp.self.base_tempo
                       /\ 2 * lp.end_tempo = lp.self.base_tempo

\* ---------------------------------------------------------------------
\* C23: in both loop-pattern generators with the accelerating direction,
\* layer i starts at base_tempo * 2^i and ends at base_tempo * 2^(i+1),
\* and the tempo of every turn of the loop is the linear interpolation
\* between the two at the turn's progress current_time / duration_ms.
InAcceleratingLayer ==
    /\ lp.pc = "layer"
    /\ lp.self.direction = "accelerating"

TurnTaken == lp.pc = "layer" /\ lp.turn.length > 0

\* (end_tempo - start_tempo) * position / duration_ms, exactly: duration_ms
\* divides the tempo span
Interpolated ==
    lp.start_tempo
        + ((lp.end_tempo - lp.start_tempo) \div DurationMs(lp.self))
            * lp.turn.position

C23_AcceleratingTempos ==
    InAcceleratingLayer =>
        /\ lp.start_tempo = lp.self.base_tempo * Pow2(lp.i)
        /\ lp.end_tempo = lp.self.base_tempo * Pow2(lp.i + 1)
        /\ TurnTaken =>
            /\ (lp.end_tempo - lp.start_tempo) % DurationMs(lp.self) = 0
            /\ Abs(lp.turn.current_tempo - Interpolated)
                   <= (lp.end_tempo - lp.start_tempo) \div One
            /\ lp.turn.position = 0 =>
                   lp.turn.current_tempo = lp.start_tempo
            /\ lp.turn.current_tempo >= lp.start_tempo
            /\ lp.turn.current_tempo < lp.end_tempo

C23_Witness ==
    /\ InAcceleratingLayer
    /\ lp.self.kind = "ClassicRissetRhythm"
    /\ lp.self.base_tempo = 80 * One
    /\ lp.i = 1
    /\ lp.start_tempo = 160 * One
    /\ lp.end_tempo = 320 * One
    /\ lp.turn.position = 400
    /\ lp.turn.current_tempo = 224 * One

\* ---------------------------------------------------------------------
\* C24: in the cyclic event layer the log-phase lies in [0, 1) at every
\* onset at t >= 0, for both directions and every layer index, so the event
\* rate lies in [base_freq, 2*base_freq) and every interval between onsets
\* in (1/(2*base_freq), 1/base_freq] (the two ends to the last digit).
InCyclicLayer ==
    /\ InRisset
    /\ cfg.variant = "cyclic"
    /\ cfg.base_tempo > 0
    /\ pc \in {"while", "for", "write", "done"}

C24_PhaseBelowOne ==
    InCyclicLayer =>
        \A k \in 1..Len(onsets) :
            onsets[k].t >= 0 =>
                /\ onsets[k].x >= 0
                /\ onsets[k].x < One
                /\ onsets[k].freq >= BaseFreq(cfg.base_tempo)
                /\ onsets[k].freq < 2 * BaseFreq(cfg.base_tempo)
                /\ Interval(onsets[k].freq)
                       >= Reciprocal(2 * BaseFreq(cfg.base_tempo))
                /\ Interval(onsets[k].freq)
                       <= Reciprocal(BaseFreq(cfg.base_tempo))

\* ---------------------------------------------------------------------
\* C25: in a Shepard layer the envelope position
\* (log2(f / base_frequency) mod num_octaves) / num_octaves lies in [0, 1)
\* at every sample, for every octave index, both directions and every
\* rise_rate.
C25_PositionBelowOne ==
    ShepardLayerDone =>
        \A k \in 1..Len(shep.frequency) :
            /\ FreqPosition(shep.self, shep.frequency[k]) >= 0
            /\ FreqPosition(shep.self, shep.frequency[k]) < One

\* ---------------------------------------------------------------------
\* C26: in the tempo-ramp beep generator, for a ramp with
\* 0 <= bpm[i] < 60 * sample_rate at every sample, the phase accumulator is
\* in [0, 1) after every step, at most one beep starts per sample, and the
\* k-th beep starts at the first sample at which the cumulative sum of
\* bpm[j] / (60 * sample_rate) reaches k: after every step the number of
\* beeps is the floor of that sum.

\* the sum of bpm[j] / (60 * sample_rate) over the first m samples, as the
\* exact fraction CumNum(r, n, m) / CumDen(r, n)
CumNum(r, n, m) ==
    IF n = 1 THEN m * r.bpm_start
    ELSE m * r.bpm_start * (n - 1)
            + (r.bpm_end - r.bpm_start) * ((m * (m - 1)) \div 2)

CumDen(r, n) == 60 * r.sample_rate * Max(n - 1, 1)

RampInRange(r, n) ==
    /\ r.bpm_start >= 0 /\ r.bpm_start < 60 * r.sample_rate
    /\ r.bpm_end >= 0 /\ r.bpm_end < 60 * r.sample_rate

InRampLoop == pc \in {"ramp_for", "ramp_write", "ramp_done"}

C26_BeepsCountCumulativeSum ==
    (InRampLoop /\ RampInRange(ramp, Len(signal))) =>
        /\ phase >= 0
        /\ phase < PhaseOne(ramp, Len(signal))
        /\ \A k \in 2..Len(beeps) : beeps[k].start > beeps[k - 1].start
        /\ Len(beeps) * CumDen(ramp, Len(signal))
               <= CumNum(ramp, Len(signal), ramp_i)
        /\ CumNum(ramp, Len(signal), ramp_i)
               < (Len(beeps) + 1) * CumDen(ramp, Len(signal))

\* ---------------------------------------------------------------------
\* C27: in the matching GUI, once stop_all has run, no beep worker started
\* by an earlier play_beep ever starts playback (calls sd.play), under every
\* interleaving of stop_all, a later play_beep and the worker's steps.
C27_NoPlayAfterStop ==
    mg.pc # "none" =>
        \A w \in 1..Len(mg.workers) : ~mg.workers[w].late

\* ---------------------------------------------------------------------
\* C28: in AudioRatingApp, after any sequence of load_folder, toggle_play,
\* check_audio_end and clear_ratings, current_playing is None or a valid
\* index into both audio_files and audio_widgets of the list displayed.
C28_CurrentPlayingValid ==
    app.pc = "mainloop" =>
        \/ app.current_playing = 0
        \/ /\ app.current_playing <= Len(app.audio_files)
           /\ app.current_playing <= Len(app.audio_widgets)

\* ---------------------------------------------------------------------
\* C29: in AudioRatingApp, after any sequence of toggle_play and
\* check_audio_end calls on a loaded list, the button of item
\* current_playing shows pause and every other button shows play, and with
\* current_playing None every button shows play.
C29_OneButtonShowsPause ==
    (app.pc = "mainloop" /\ ~app.reloaded) =>
        \A k \in 1..Len(app.audio_widgets) :
            app.audio_widgets[k].play_btn
                = IF k = app.current_playing THEN "pause" ELSE "play"

\* ---------------------------------------------------------------------
\* C30: in AudioRatingApp, if item i is marked playing, its playback has
\* finished and the user does nothing more, then eventually current_playing
\* is None and button i shows play.
C30_FinishedItemIsReset ==
    \A index \in 1..MaxFiles :
        (app.pc = "mainloop" /\ app.quiet /\ ~app.busy
            /\ app.current_playing = index)
        ~> (/\ app.current_playing = 0
            /\ index <= Len(app.audio_widgets)
            /\ app.audio_widgets[index].play_btn = "play")

====
